---------------------------- MODULE Spec2Model ----------------------------
(***************************************************************************)
(* A model of the shaper image-to-vector tracing pipeline and of the       *)
(* editor page that hosts it.                                              *)
(*                                                                         *)
(* Every component of the pipeline is a pure function of its input; each   *)
(* has a specification of its own (SpecOtsu, SpecHyst, ...) whose initial  *)
(* states draw the input from a bounded set and whose actions apply the    *)
(* function.  The variables of the other components stay at their idle     *)
(* values.  The editor page is a state machine of React state and of the   *)
(* trace promises in flight (SpecHost).                                    *)
(*                                                                         *)
(* Numbers: JavaScript numbers are modelled by integers.  Where the code   *)
(* only compares quantities, the model compares them exactly (as fractions *)
(* or as squares), which is what the floating point comparison decides     *)
(* away from rounding ties.                                                *)
(***************************************************************************)
EXTENDS Integers, Sequences, FiniteSets, TLC

VARIABLES
    \* otsuThreshold(gray)
    gray, threshold, otsuPc,
    \* hysteresis(nms, w, h, lowRatio, highRatio)
    nms, lowRatio, highRatio, strong, queue, edges, hystPc,
    \* rdp(points, epsilon), and rdp applied to its own result
    points, epsHalves, simplified, resimplified, rdpPc,
    \* marchingSquares / marchingSquaresMulti(mask, width, height, maxContours, minLength)
    mask, width, height, maxContours, minLength,
    segments, segIdx, visitedEdges, paths, path, prev, curr,
    contour, contours, msPc,
    \* the editor page: React state and refs, and the traceFromImage calls
    \* its handlers have started (traces, in the order they were started)
    traceError, isTracing, bezierData, anchorsData, smoothStates,
    historyRef, historyIndexRef, showDropZone, imageWarnings,
    showActionsMenu, isCmdPaletteOpen, traces,
    \* fitCurve(points, error): its arguments and the segments it returns;
    \* fitDepth is the depth a call of fitCubic is made at
    fitPoints, fitErrHalves, fitDepth, fitted, fitPc,
    \* traceFromImage(src, errorTolerance): what the image gives (its
    \* category, whether its loads fail, the paths its mask walks to, its
    \* edge pixels) and the call's progress
    trKind, trTolerance, trFails, trPaths, trEdgeCount,
    trCanny, trContours, trTol10, trIdx, trCalls, trStrokes, trPc,
    \* analyzeImage(imageData) and imageToMask(imageData)
    imageData, analysis, maskOut, imagePc,
    \* the editor page's effects: their refs, the timers they have set (a
    \* ref is 0 for null), the time since bezierData or smoothStates was
    \* last set, the last auto-save and the numbers of saves and of changes
    \* the user has made
    timers, pushHistoryRef, autoSaveRef, autoSaveCleanup, isUndoRedoRef,
    initialLoadRef, sinceChange, lastSaved, saveCount, edits

otsuVars == <<gray, threshold, otsuPc>>
hystVars == <<nms, lowRatio, highRatio, strong, queue, edges, hystPc>>
rdpVars == <<points, epsHalves, simplified, resimplified, rdpPc>>
msArgs == <<mask, width, height>>
msWalk == <<segments, segIdx, visitedEdges, paths, path, prev, curr>>
msOut == <<maxContours, minLength, contour, contours>>
msVars == <<msArgs, msWalk, msOut, msPc>>
hostData == <<bezierData, anchorsData, smoothStates, historyRef, historyIndexRef>>
hostView == <<showDropZone, imageWarnings, showActionsMenu, isCmdPaletteOpen>>
hostVars == <<traceError, isTracing, hostData, hostView, traces>>
fitVars == <<fitPoints, fitErrHalves, fitDepth, fitted, fitPc>>
trImage == <<trKind, trTolerance, trFails, trPaths, trEdgeCount>>
trRun == <<trCanny, trContours, trTol10, trIdx, trCalls, trStrokes>>
trVars == <<trImage, trRun, trPc>>
imageVars == <<imageData, analysis, maskOut, imagePc>>
editRefs == <<timers, pushHistoryRef, autoSaveRef, autoSaveCleanup, isUndoRedoRef,
              initialLoadRef, sinceChange>>
editLog == <<lastSaved, saveCount, edits>>
editVars == <<editRefs, editLog>>
extVars == <<trVars, imageVars, editVars>>
vars == <<otsuVars, hystVars, rdpVars, msVars, hostVars, fitVars, extVars>>

----------------------------------------------------------------------------
(* Generic helpers                                                         *)

Abs(x) == IF x < 0 THEN -x ELSE x
Max(a, b) == IF a >= b THEN a ELSE b
Min(a, b) == IF a <= b THEN a ELSE b

\* All sequences over S of length lo..hi.
SeqsOf(S, lo, hi) == UNION {[1..n -> S] : n \in lo..hi}

----------------------------------------------------------------------------
(* otsuThreshold                                                           *)

\* Number of histogram bins (new Array(256)); luminance values are 0..255.
HistBins == 256

\* Bound: the number of pixels of the luminance list.
MaxPix == 4

\* The luminance values the inputs are drawn from.
LumSamples == {0, 1, 64, 128, 200, 255}

\* hist[v]++ for every v of gray.
Histogram(g) ==
    [v \in 0..(HistBins - 1) |-> Cardinality({k \in 1..Len(g) : g[k] = v})]

\* for (let i = 0; i < 256; i++) sumTotal += i * hist[i], over the bins
\* lo..hi-1 (the range is halved to keep the evaluation shallow).
RECURSIVE SumTotalOver(_, _, _)
SumTotalOver(hist, lo, hi) ==
    IF hi - lo = 1 THEN lo * hist[lo]
    ELSE LET mid == (lo + hi) \div 2
         IN  SumTotalOver(hist, lo, mid) + SumTotalOver(hist, mid, hi)

\* varBetween = wB * wF * (mB - mF) ** 2 with mB = sumB / wB and
\* mF = (sumTotal - sumB) / wF, kept as the exact fraction
\* (sumB * wF - (sumTotal - sumB) * wB)^2 / (wB * wF).
VarBetween(sumB, wB, sumTotal, wF) ==
    LET d == sumB * wF - (sumTotal - sumB) * wB
    IN  [num |-> d * d, den |-> wB * wF]

\* a > b for fractions with positive denominators.
FracGt(a, b) == a.num * b.den > b.num * a.den

\* The body of the scan "for (let i = 0; i < 256; i++)" at bin i; st holds
\* the loop's variables, and st.stop says that the loop has hit its break.
OtsuStep(i, hist, total, sumTotal, st) ==
    IF st.stop THEN st
    ELSE LET wB == st.wB + hist[i]
             wF == total - wB
         IN  IF wB = 0 THEN [st EXCEPT !.wB = wB]
             ELSE IF wF = 0 THEN [st EXCEPT !.wB = wB, !.stop = TRUE]
             ELSE LET sumB == st.sumB + i * hist[i]
                      varBetween == VarBetween(sumB, wB, sumTotal, wF)
                  IN  IF FracGt(varBetween, st.maxVar)
                      THEN [st EXCEPT !.wB = wB, !.sumB = sumB,
                                      !.maxVar = varBetween, !.threshold = i]
                      ELSE [st EXCEPT !.wB = wB, !.sumB = sumB]

\* The scan over the bins lo..hi-1 in increasing order (the range is halved
\* to keep the evaluation shallow).
RECURSIVE OtsuScan(_, _, _, _, _, _)
OtsuScan(lo, hi, hist, total, sumTotal, st) ==
    IF hi - lo = 1 THEN OtsuStep(lo, hist, total, sumTotal, st)
    ELSE LET mid == (lo + hi) \div 2
             left == OtsuScan(lo, mid, hist, total, sumTotal, st)
         IN  \* (the test has the lower half evaluated before the upper one)
             IF left.stop \in BOOLEAN
             THEN OtsuScan(mid, hi, hist, total, sumTotal, left)
             ELSE left

otsuThreshold(g) ==
    LET hist == Histogram(g)
        st0 == [sumB |-> 0, wB |-> 0, maxVar |-> [num |-> -1, den |-> 1],
                threshold |-> 128, stop |-> FALSE]
    IN  OtsuScan(0, HistBins, hist, Len(g), SumTotalOver(hist, 0, HistBins), st0).threshold

OtsuIdle == gray = <<>> /\ threshold = 0 /\ otsuPc = "idle"

OtsuInit ==
    /\ gray \in SeqsOf(LumSamples, 1, MaxPix)
    /\ threshold = 0
    /\ otsuPc = "call"

RunOtsu ==
    /\ otsuPc = "call"
    /\ threshold' = otsuThreshold(gray)
    /\ otsuPc' = "done"
    /\ UNCHANGED <<gray, hystVars, rdpVars, msVars, hostVars, fitVars, extVars>>

----------------------------------------------------------------------------
(* hysteresis                                                              *)

\* Bounds: the raster is HystW x HystH and at most MaxEdgePix of its pixels
\* carry a non-zero suppressed magnitude.
HystW == 4
HystH == 2
MaxEdgePix == 3

\* Magnitudes the suppressed gradient is drawn from.
NmsSamples == {0, 1, 10}

\* (lowRatio, highRatio) in thousandths: the pairs analyzeImage recommends
\* (0.03/0.10, 0.04/0.12, 0.06/0.18) and cannyEdgeDetection's defaults
\* (0.05/0.15).
RatioPairs == {<<30, 100>>, <<40, 120>>, <<60, 180>>, <<50, 150>>}

HystN == HystW * HystH
Pixels == 0..(HystN - 1)

\* let maxMag = 0; for (...) if (nms[i] > maxMag) maxMag = nms[i];
MaxMag(m) == IF \A i \in DOMAIN m : m[i] <= 0 THEN 0
             ELSE CHOOSE v \in {m[i] : i \in DOMAIN m} : \A j \in DOMAIN m : m[j] <= v

\* nms[i] >= maxMag * ratio, the ratio in thousandths.
AtLeast(m, i, ratio) == m[i] * 1000 >= MaxMag(m) * ratio

\* The classification loop: 2 = strong, 1 = weak, 0 = neither.
Classify(m, lo, hi) ==
    [i \in DOMAIN m |-> IF AtLeast(m, i, hi) THEN 2
                        ELSE IF AtLeast(m, i, lo) THEN 1 ELSE 0]

\* The strong pixels in index order: queue.push(i) in the same loop.
RECURSIVE SeedsFrom(_, _)
SeedsFrom(s, i) ==
    IF i >= HystN THEN <<>>
    ELSE IF s[i] = 2 THEN <<i>> \o SeedsFrom(s, i + 1) ELSE SeedsFrom(s, i + 1)

\* The 8 neighbours of idx inside the raster, in the order of the loops
\* "for dy = -1..1, for dx = -1..1", the centre skipped.
\* (4-connectivity, the diagonal neighbours left out: used to test C8.)
NeighbourOffsetsFour == << <<0, -1>>, <<-1, 0>>, <<1, 0>>, <<0, 1>> >>

NeighbourOffsets ==
    <<  <<-1, -1>>, <<0, -1>>, <<1, -1>>, <<-1, 0>>, <<1, 0>>, <<-1, 1>>, <<0, 1>>, <<1, 1>> >>

InRaster(x, y) == x >= 0 /\ x < HystW /\ y >= 0 /\ y < HystH

\* One pass of the two nested neighbour loops for the popped pixel (x, y),
\* from offset k on: a weak neighbour becomes strong and is pushed.
RECURSIVE Promote(_, _, _, _, _)
Promote(k, x, y, s, q) ==
    IF k > Len(NeighbourOffsets) THEN [strong |-> s, queue |-> q]
    ELSE LET nx == x + NeighbourOffsets[k][1]
             ny == y + NeighbourOffsets[k][2]
             ni == ny * HystW + nx
         IN  IF InRaster(nx, ny) /\ s[ni] = 1
             THEN Promote(k + 1, x, y, [s EXCEPT ![ni] = 2], Append(q, ni))
             ELSE Promote(k + 1, x, y, s, q)

HystIdle ==
    /\ nms = <<>> /\ lowRatio = 0 /\ highRatio = 0
    /\ strong = <<>> /\ queue = <<>> /\ edges = <<>> /\ hystPc = "idle"

HystInit ==
    /\ \E S \in SUBSET Pixels :
         /\ Cardinality(S) <= MaxEdgePix
         /\ \E f \in [S -> NmsSamples \ {0}] :
              nms = [i \in Pixels |-> IF i \in S THEN f[i] ELSE 0]
    /\ \E r \in RatioPairs : lowRatio = r[1] /\ highRatio = r[2]
    /\ strong = [i \in Pixels |-> 0]
    /\ queue = <<>>
    /\ edges = <<>>
    /\ hystPc = "classify"

\* Lines 308-326: thresholds, classification, seeding of the queue.
HystClassify ==
    /\ hystPc = "classify"
    /\ strong' = Classify(nms, lowRatio, highRatio)
    /\ queue' = SeedsFrom(strong', 0)
    /\ hystPc' = "bfs"
    /\ UNCHANGED <<nms, lowRatio, highRatio, edges, otsuVars, rdpVars, msVars, hostVars, fitVars, extVars>>

\* One turn of "while (queue.length > 0)": queue.pop() takes the last entry.
HystPop ==
    /\ hystPc = "bfs"
    /\ Len(queue) > 0
    /\ LET idx == queue[Len(queue)]
           x == idx % HystW
           y == (idx - x) \div HystW
           r == Promote(1, x, y, strong, SubSeq(queue, 1, Len(queue) - 1))
       IN  strong' = r.strong /\ queue' = r.queue
    /\ UNCHANGED <<nms, lowRatio, highRatio, edges, hystPc, otsuVars, rdpVars, msVars, hostVars, fitVars, extVars>>

\* The loop ends; return Array.from(strong, (v) => v === 2).
HystReturn ==
    /\ hystPc = "bfs"
    /\ Len(queue) = 0
    /\ edges' = [i \in Pixels |-> strong[i] = 2]
    /\ hystPc' = "done"
    /\ UNCHANGED <<nms, lowRatio, highRatio, strong, queue, otsuVars, rdpVars, msVars, hostVars, fitVars, extVars>>

----------------------------------------------------------------------------
(* rdp                                                                     *)

\* Bounds: the number of points of a polyline, and the largest epsilon in
\* halves of a unit (epsilon = epsHalves / 2).
MaxPolyLen == 5
MaxEpsHalves == 3

\* A polyline starts at the origin and goes on by steps to one of the 8
\* neighbouring lattice points, as the contours of the tracer do.
LatticeSteps == {<<dx, dy>> : dx \in -1..1, dy \in -1..1} \ {<<0, 0>>}

RECURSIVE PolylineFrom(_, _)
PolylineFrom(start, steps) ==
    IF steps = <<>> THEN <<start>>
    ELSE <<start>> \o PolylineFrom(<<start[1] + steps[1][1], start[2] + steps[1][2]>>,
                                   Tail(steps))

Polylines(maxLen) ==
    {PolylineFrom(<<0, 0>>, st) : st \in SeqsOf(LatticeSteps, 0, maxLen - 1)}

\* distPointLine(pt, start, end), squared and kept as an exact fraction.
\* With L = dx*dx + dy*dy and t = n / L clamped to 0..1, the squared length
\* of pt - (start + t * d) is |L*(pt - start) - n*d|^2 / L^2 for 0 < t < 1,
\* whose numerator is a multiple of L: the fraction is reduced by L.
distPointLine(pt, start, end) ==
    LET dx == end[1] - start[1]
        dy == end[2] - start[2]
        ax == pt[1] - start[1]
        ay == pt[2] - start[2]
        L == dx * dx + dy * dy
        n == ax * dx + ay * dy
    IN  IF dx = 0 /\ dy = 0 THEN [num |-> ax * ax + ay * ay, den |-> 1]
        ELSE IF n <= 0 THEN [num |-> ax * ax + ay * ay, den |-> 1]
        ELSE IF n >= L THEN [num |-> (ax - dx) * (ax - dx) + (ay - dy) * (ay - dy), den |-> 1]
        ELSE [num |-> ((L * ax - n * dx) * (L * ax - n * dx)
                        + (L * ay - n * dy) * (L * ay - n * dy)) \div L,
              den |-> L]

\* d > epsilon for a squared distance d and epsilon = h / 2 >= 0.
ExceedsEps(d, h) == 4 * d.num > h * h * d.den

\* (The scan with its last interior point left out: used to test C6.)
RECURSIVE RdpFarthestShort(_, _, _, _)
RdpFarthestShort(pts, i, maxDist, index) ==
    IF i > Len(pts) - 2 THEN [maxDist |-> maxDist, index |-> index]
    ELSE LET d == distPointLine(pts[i], pts[1], pts[Len(pts)])
         IN  IF FracGt(d, maxDist) THEN RdpFarthestShort(pts, i + 1, d, i)
             ELSE RdpFarthestShort(pts, i + 1, maxDist, index)

\* (The scan measuring against the chord to the last but one point: used to
\* test C5.)
RECURSIVE RdpFarthestWrongChord(_, _, _, _)
RdpFarthestWrongChord(pts, i, maxDist, index) ==
    IF i > Len(pts) - 1 THEN [maxDist |-> maxDist, index |-> index]
    ELSE LET d == distPointLine(pts[i], pts[1], pts[Len(pts) - 1])
         IN  IF FracGt(d, maxDist) THEN RdpFarthestWrongChord(pts, i + 1, d, i)
             ELSE RdpFarthestWrongChord(pts, i + 1, maxDist, index)

\* The loop "for (let i = 1; i < points.length - 1; i++)" from position i
\* on (positions count from 1 here: the interior points are 2..Len - 1).
RECURSIVE RdpFarthest(_, _, _, _)
RdpFarthest(pts, i, maxDist, index) ==
    IF i > Len(pts) - 1 THEN [maxDist |-> maxDist, index |-> index]
    ELSE LET d == distPointLine(pts[i], pts[1], pts[Len(pts)])
         IN  IF FracGt(d, maxDist) THEN RdpFarthest(pts, i + 1, d, i)
             ELSE RdpFarthest(pts, i + 1, maxDist, index)

\* (left.concat(right), the point of the split kept twice: used to test C28.)
RdpJoinWhole(left, right) == left \o right

\* left.slice(0, -1).concat(right)
RdpJoin(left, right) == SubSeq(left, 1, Len(left) - 1) \o right

RECURSIVE rdp(_, _)
\* (The early return taken for no point only: used to test C14.)
rdpGuardEmpty(pts, h) ==
    IF Len(pts) < 1 THEN pts
    ELSE LET far == RdpFarthest(pts, 2, [num |-> 0, den |-> 1], 1)
         IN  IF ExceedsEps(far.maxDist, h)
             THEN RdpJoin(rdp(SubSeq(pts, 1, far.index), h),
                          rdp(SubSeq(pts, far.index, Len(pts)), h))
             ELSE <<pts[1], pts[Len(pts)]>>

rdp(pts, h) ==
    IF Len(pts) < 3 THEN pts
    ELSE LET far == RdpFarthest(pts, 2, [num |-> 0, den |-> 1], 1)
         IN  IF ExceedsEps(far.maxDist, h)
             THEN RdpJoin(rdp(SubSeq(pts, 1, far.index), h),
                          rdp(SubSeq(pts, far.index, Len(pts)), h))
             ELSE <<pts[1], pts[Len(pts)]>>

RdpIdle ==
    /\ points = <<>> /\ epsHalves = 0
    /\ simplified = <<>> /\ resimplified = <<>> /\ rdpPc = "idle"

RdpInit ==
    /\ points \in Polylines(MaxPolyLen)
    /\ epsHalves \in 0..MaxEpsHalves
    /\ simplified = <<>>
    /\ resimplified = <<>>
    /\ rdpPc = "call"

\* simplified = rdp(points, epsilon)
\* rdp called with a polyline of no point, or of up to three.
RdpInitShort ==
    /\ points \in Polylines(3) \cup {<<>>}
    /\ epsHalves \in 0..MaxEpsHalves
    /\ simplified = <<>>
    /\ resimplified = <<>>
    /\ rdpPc = "call"

RunRdp ==
    /\ rdpPc = "call"
    /\ simplified' = rdp(points, epsHalves)
    /\ rdpPc' = "once"
    /\ UNCHANGED <<points, epsHalves, resimplified, otsuVars, hystVars, msVars, hostVars, fitVars, extVars>>

\* rdp applied to the simplified polyline, with the same epsilon
RunRdpAgain ==
    /\ rdpPc = "once"
    /\ resimplified' = rdp(simplified, epsHalves)
    /\ rdpPc' = "twice"
    /\ UNCHANGED <<points, epsHalves, simplified, otsuVars, hystVars, msVars, hostVars, fitVars, extVars>>

----------------------------------------------------------------------------
(* marchingSquares and marchingSquaresMulti                                *)
(*                                                                         *)
(* The two functions scan the cells, build the adjacency and walk the      *)
(* paths with the same code (part_000 lines 400-498 and 522-619); they     *)
(* differ in what they return.  The walk is modelled step by step, one     *)
(* action per turn of its loops, and each function's return as an action.  *)
(* A point [x, y] is held as <<2x, 2y>>: the crossing points lie on half   *)
(* units.                                                                  *)

\* Bounds: the small masks are GridW x GridH with at most MaxOn pixels of
\* one kind (foreground or background) and the rest of the other kind.
GridW == 4
GridH == 3
MaxOn == 3

\* Bounds of the square masks: a filled SquareSide x SquareSide square in a
\* FieldSide x FieldSide field.
FieldSide == 20
SquareSide == 10

\* The values the arguments maxContours and minLength are drawn from; 8 is
\* marchingSquares' default minLength and 10 marchingSquaresMulti's default
\* maxContours.
MaxContoursSamples == {1, 2, 10}
MinLengthSamples == {2, 5, 8}

\* ptKey(x, y): `${Math.round(x * 1000)},${Math.round(y * 1000)}`
ptKey(p) == <<p[1] * 500, p[2] * 500>>

isOn(m, w, x, y) == m[y * w + x]

Bit(b) == IF b THEN 1 ELSE 0

Segment(p1, p2) == [k1 |-> ptKey(p1), k2 |-> ptKey(p2), p1 |-> p1, p2 |-> p2]

\* (The saddle cells resolved the other way round: used to test C22.)
CellSegmentsSwapped(m, w, x, y) ==
    LET tl == Bit(isOn(m, w, x, y))
        tr == Bit(isOn(m, w, x + 1, y))
        br == Bit(isOn(m, w, x + 1, y + 1))
        bl == Bit(isOn(m, w, x, y + 1))
        c == tl * 8 + tr * 4 + br * 2 + bl
        top == <<2 * x + 1, 2 * y>>
        right == <<2 * x + 2, 2 * y + 1>>
        bottom == <<2 * x + 1, 2 * y + 2>>
        left == <<2 * x, 2 * y + 1>>
        crossings == (IF tl # tr THEN <<top>> ELSE <<>>)
                     \o (IF tr # br THEN <<right>> ELSE <<>>)
                     \o (IF br # bl THEN <<bottom>> ELSE <<>>)
                     \o (IF bl # tl THEN <<left>> ELSE <<>>)
    IN  IF c = 0 \/ c = 15 THEN <<>>
        ELSE IF Len(crossings) = 2 THEN <<Segment(crossings[1], crossings[2])>>
        ELSE IF Len(crossings) = 4
             THEN IF c = 5 THEN <<Segment(top, left), Segment(bottom, right)>>
                  ELSE IF c = 10 THEN <<Segment(top, right), Segment(bottom, left)>>
                  ELSE <<>>
        ELSE <<>>

\* (The saddle cells with their second segment left out: used to test C27.)
CellSegmentsOneSaddle(m, w, x, y) ==
    LET tl == Bit(isOn(m, w, x, y))
        tr == Bit(isOn(m, w, x + 1, y))
        br == Bit(isOn(m, w, x + 1, y + 1))
        bl == Bit(isOn(m, w, x, y + 1))
        c == tl * 8 + tr * 4 + br * 2 + bl
        top == <<2 * x + 1, 2 * y>>
        right == <<2 * x + 2, 2 * y + 1>>
        bottom == <<2 * x + 1, 2 * y + 2>>
        left == <<2 * x, 2 * y + 1>>
        crossings == (IF tl # tr THEN <<top>> ELSE <<>>)
                     \o (IF tr # br THEN <<right>> ELSE <<>>)
                     \o (IF br # bl THEN <<bottom>> ELSE <<>>)
                     \o (IF bl # tl THEN <<left>> ELSE <<>>)
    IN  IF c = 0 \/ c = 15 THEN <<>>
        ELSE IF Len(crossings) = 2 THEN <<Segment(crossings[1], crossings[2])>>
        ELSE IF Len(crossings) = 4
             THEN IF c = 5 THEN <<Segment(top, right)>>
                  ELSE IF c = 10 THEN <<Segment(top, left)>>
                  ELSE <<>>
        ELSE <<>>

\* The body of the cell loops for the cell whose top left pixel is (x, y):
\* the segments it pushes.
CellSegments(m, w, x, y) ==
    LET tl == Bit(isOn(m, w, x, y))
        tr == Bit(isOn(m, w, x + 1, y))
        br == Bit(isOn(m, w, x + 1, y + 1))
        bl == Bit(isOn(m, w, x, y + 1))
        c == tl * 8 + tr * 4 + br * 2 + bl
        top == <<2 * x + 1, 2 * y>>
        right == <<2 * x + 2, 2 * y + 1>>
        bottom == <<2 * x + 1, 2 * y + 2>>
        left == <<2 * x, 2 * y + 1>>
        crossings == (IF tl # tr THEN <<top>> ELSE <<>>)
                     \o (IF tr # br THEN <<right>> ELSE <<>>)
                     \o (IF br # bl THEN <<bottom>> ELSE <<>>)
                     \o (IF bl # tl THEN <<left>> ELSE <<>>)
    IN  IF c = 0 \/ c = 15 THEN <<>>
        ELSE IF Len(crossings) = 2 THEN <<Segment(crossings[1], crossings[2])>>
        ELSE IF Len(crossings) = 4
             THEN IF c = 5 THEN <<Segment(top, right), Segment(bottom, left)>>
                  ELSE IF c = 10 THEN <<Segment(top, left), Segment(bottom, right)>>
                  ELSE <<>>
        ELSE <<>>

\* The segments of the cells lo..hi-1, the cells counted row by row as the
\* loops "for y, for x" visit them (the range is halved to keep the
\* evaluation shallow).
RECURSIVE SegmentsOver(_, _, _, _, _)
SegmentsOver(m, w, h, lo, hi) ==
    IF hi <= lo THEN <<>>
    ELSE IF hi - lo = 1 THEN CellSegments(m, w, lo % (w - 1), lo \div (w - 1))
    ELSE LET mid == (lo + hi) \div 2
         IN  SegmentsOver(m, w, h, lo, mid) \o SegmentsOver(m, w, h, mid, hi)

AllSegments(m, w, h) == SegmentsOver(m, w, h, 0, (w - 1) * (h - 1))

\* The keys of the adjacency map.
Keys(segs) == {segs[i].k1 : i \in 1..Len(segs)} \cup {segs[i].k2 : i \in 1..Len(segs)}

\* The elements of a finite set of integers as an increasing sequence.
RECURSIVE Ascending(_)
Ascending(S) ==
    IF S = {} THEN <<>>
    ELSE LET lo == CHOOSE a \in S : \A b \in S : a <= b
         IN  <<lo>> \o Ascending(S \ {lo})

\* adj.get(k): the other ends of the segments that touch k, in the order
\* the loop over the segments pushes them.
Adj(segs, k) ==
    LET touching == Ascending({i \in 1..Len(segs) : segs[i].k1 = k \/ segs[i].k2 = k})
    IN  [n \in 1..Len(touching) |->
            IF segs[touching[n]].k1 = k THEN segs[touching[n]].k2 ELSE segs[touching[n]].k1]

\* ptLookup.get(k): the point the last segment that touches k set for it.
ptLookup(segs, k) ==
    LET last == CHOOSE i \in 1..Len(segs) :
                    /\ segs[i].k1 = k \/ segs[i].k2 = k
                    /\ \A j \in 1..Len(segs) : (segs[j].k1 = k \/ segs[j].k2 = k) => j <= i
    IN  IF segs[last].k2 = k THEN segs[last].p2 ELSE segs[last].p1

\* edgeId(a, b): the two keys in one fixed order (the code orders the key
\* strings; any total order of the keys gives the same identification).
KeyLess(a, b) == a[1] < b[1] \/ (a[1] = b[1] /\ a[2] < b[2])
edgeId(a, b) == IF KeyLess(a, b) THEN <<a, b>> ELSE <<b, a>>

\* NextKey without the test against prev: the walk always takes the first
\* neighbour.
NextKeyFirst(segs, pr, cu) == Adj(segs, cu)[1]

\* The neighbour the walk moves to from curr, having come from prev.
NextKey(segs, pr, cu) ==
    LET neighbors == Adj(segs, cu)
    IN  IF Len(neighbors) = 1 THEN neighbors[1]
        ELSE IF neighbors[1] # pr THEN neighbors[1] ELSE neighbors[2]

\* path.map((k) => ptLookup.get(k)!)
PathPoints(segs, keys) == [i \in 1..Len(keys) |-> ptLookup(segs, keys[i])]

\* The sort with the comparison turned round (a.length - b.length):
\* shortest first.
RECURSIVE InsertByLengthAscending(_, _)
InsertByLengthAscending(sorted, p) ==
    IF sorted = <<>> THEN <<p>>
    ELSE IF Len(sorted[Len(sorted)]) <= Len(p) THEN Append(sorted, p)
    ELSE Append(InsertByLengthAscending(SubSeq(sorted, 1, Len(sorted) - 1), p),
                sorted[Len(sorted)])

\* paths.sort((a, b) => b.length - a.length): a stable sort, longest first.
RECURSIVE InsertByLength(_, _)
InsertByLength(sorted, p) ==
    IF sorted = <<>> THEN <<p>>
    ELSE IF Len(sorted[Len(sorted)]) >= Len(p) THEN Append(sorted, p)
    ELSE Append(InsertByLength(SubSeq(sorted, 1, Len(sorted) - 1), p), sorted[Len(sorted)])

RECURSIVE SortByLength(_)
SortByLength(ps) ==
    IF ps = <<>> THEN <<>>
    ELSE InsertByLength(SortByLength(SubSeq(ps, 1, Len(ps) - 1)), ps[Len(ps)])

\* paths.filter((p) => p.length >= minLength)
RECURSIVE FilterByLength(_, _)
FilterByLength(ps, minLen) ==
    IF ps = <<>> THEN <<>>
    ELSE (IF Len(ps[1]) >= minLen THEN <<ps[1]>> ELSE <<>>) \o FilterByLength(Tail(ps), minLen)

\* (The longest path returned whatever its length: used to test C25.)
marchingSquaresLongest(ps, maxC, minLen) ==
    IF Len(ps) = 0 THEN <<>> ELSE SortByLength(ps)[1]

\* What marchingSquares returns for the walked paths (lines 500-511).
marchingSquaresResult(ps, maxC, minLen) ==
    IF Len(ps) = 0 THEN <<>>
    ELSE LET filtered == FilterByLength(SortByLength(ps), minLen)
         IN  IF Len(filtered) = 0 THEN <<>> ELSE filtered[1]

\* (The return without its slice(0, maxContours): used to test C12.)
marchingSquaresMultiAll(ps, maxC, minLen) == FilterByLength(SortByLength(ps), minLen)

\* What marchingSquaresMulti returns for the walked paths (lines 621-623).
marchingSquaresMultiResult(ps, maxC, minLen) ==
    LET filtered == FilterByLength(SortByLength(ps), minLen)
    IN  SubSeq(filtered, 1, Min(maxC, Len(filtered)))

\* The small masks.
SmallMasks ==
    LET N == GridW * GridH
    IN  {[i \in 0..(N - 1) |-> IF i \in S THEN b ELSE ~b] :
            S \in {T \in SUBSET (0..(N - 1)) : Cardinality(T) <= MaxOn}, b \in BOOLEAN}

\* The mask whose foreground is the filled square with top left pixel (ox, oy).
SquareMask(ox, oy) ==
    [i \in 0..(FieldSide * FieldSide - 1) |->
        /\ i % FieldSide >= ox /\ i % FieldSide < ox + SquareSide
        /\ i \div FieldSide >= oy /\ i \div FieldSide < oy + SquareSide]

SquareOffsets == 0..(FieldSide - SquareSide)

MsIdle ==
    /\ mask = <<>> /\ width = 0 /\ height = 0 /\ maxContours = 0 /\ minLength = 0
    /\ segments = <<>> /\ segIdx = 0 /\ visitedEdges = {} /\ paths = <<>>
    /\ path = <<>> /\ prev = <<>> /\ curr = <<>>
    /\ contour = <<>> /\ contours = <<>> /\ msPc = "idle"

MsInit ==
    /\ \/ mask \in SmallMasks /\ width = GridW /\ height = GridH
       \/ /\ \E ox, oy \in SquareOffsets : mask = SquareMask(ox, oy)
          /\ width = FieldSide /\ height = FieldSide
    /\ maxContours = 0 /\ minLength = 0
    /\ segments = <<>> /\ segIdx = 0 /\ visitedEdges = {} /\ paths = <<>>
    /\ path = <<>> /\ prev = <<>> /\ curr = <<>>
    /\ contour = <<>> /\ contours = <<>>
    /\ msPc = "scan"

\* The masks without foreground, of every size up to the grid's.
BackgroundMasks(w, h) == [i \in 0..(w * h - 1) |-> FALSE]

\* marchingSquares called with a small mask or with a mask without
\* foreground of any size.
MsInitSmall ==
    /\ \/ mask \in SmallMasks /\ width = GridW /\ height = GridH
       \/ \E w \in 1..GridW, h \in 1..GridH :
            mask = BackgroundMasks(w, h) /\ width = w /\ height = h
    /\ maxContours = 0 /\ minLength = 0
    /\ segments = <<>> /\ segIdx = 0 /\ visitedEdges = {} /\ paths = <<>>
    /\ path = <<>> /\ prev = <<>> /\ curr = <<>>
    /\ contour = <<>> /\ contours = <<>>
    /\ msPc = "scan"

others == <<otsuVars, hystVars, rdpVars, hostVars, fitVars, extVars>>

\* The cell loops and the adjacency loop: segments, adj and ptLookup are
\* built (adj and ptLookup are functions of segments, see Adj and ptLookup).
MsScan ==
    /\ msPc = "scan"
    /\ segments' = AllSegments(mask, width, height)
    /\ segIdx' = 1
    /\ msPc' = "for"
    /\ UNCHANGED <<msArgs, visitedEdges, paths, path, prev, curr, msOut, others>>

\* for (const [k1, k2] of segments): the segment's edge is visited already.
MsForSkip ==
    /\ msPc = "for"
    /\ segIdx <= Len(segments)
    /\ edgeId(segments[segIdx].k1, segments[segIdx].k2) \in visitedEdges
    /\ segIdx' = segIdx + 1
    /\ UNCHANGED <<msArgs, segments, visitedEdges, paths, path, prev, curr, msOut, msPc, others>>

\* for (const [k1, k2] of segments): a new path starts on the segment.
MsForStart ==
    /\ msPc = "for"
    /\ segIdx <= Len(segments)
    /\ LET k1 == segments[segIdx].k1
           k2 == segments[segIdx].k2
       IN  /\ edgeId(k1, k2) \notin visitedEdges
           /\ path' = <<k1, k2>>
           /\ visitedEdges' = visitedEdges \cup {edgeId(k1, k2)}
           /\ prev' = k1
           /\ curr' = k2
    /\ msPc' = "while"
    /\ UNCHANGED <<msArgs, segments, segIdx, paths, msOut, others>>

\* while (true): the next neighbour is the path's first key; the path is
\* closed and pushed to paths.
MsWalkClose ==
    /\ msPc = "while"
    /\ LET next == NextKey(segments, prev, curr)
       IN  /\ next = path[1]
           /\ paths' = Append(paths, PathPoints(segments, Append(path, next)))
           /\ path' = Append(path, next)
    /\ segIdx' = segIdx + 1
    /\ msPc' = "for"
    /\ UNCHANGED <<msArgs, segments, visitedEdges, prev, curr, msOut, others>>

\* while (true): the edge to the next neighbour is visited already; the
\* path ends open and is pushed to paths.
MsWalkStop ==
    /\ msPc = "while"
    /\ LET next == NextKey(segments, prev, curr)
       IN  /\ next # path[1]
           /\ edgeId(curr, next) \in visitedEdges
    /\ paths' = Append(paths, PathPoints(segments, path))
    /\ segIdx' = segIdx + 1
    /\ msPc' = "for"
    /\ UNCHANGED <<msArgs, segments, visitedEdges, path, prev, curr, msOut, others>>

\* while (true): the walk moves on to the next neighbour.
MsWalkAdvance ==
    /\ msPc = "while"
    /\ LET next == NextKey(segments, prev, curr)
       IN  /\ next # path[1]
           /\ edgeId(curr, next) \notin visitedEdges
           /\ visitedEdges' = visitedEdges \cup {edgeId(curr, next)}
           /\ path' = Append(path, next)
           /\ prev' = curr
           /\ curr' = next
    /\ UNCHANGED <<msArgs, segments, segIdx, paths, msOut, msPc, others>>

\* The loop over the segments has ended: marchingSquares returns.
MsReturnSingle ==
    /\ msPc = "for"
    /\ segIdx > Len(segments)
    /\ \E k \in MaxContoursSamples, n \in MinLengthSamples :
         /\ maxContours' = k
         /\ minLength' = n
         /\ contour' = marchingSquaresResult(paths, k, n)
    /\ msPc' = "single"
    /\ UNCHANGED <<msArgs, msWalk, contours, others>>

\* The loop over the segments has ended: marchingSquaresMulti returns.
MsReturnMulti ==
    /\ msPc = "for"
    /\ segIdx > Len(segments)
    /\ \E k \in MaxContoursSamples, n \in MinLengthSamples :
         /\ maxContours' = k
         /\ minLength' = n
         /\ contours' = marchingSquaresMultiResult(paths, k, n)
    /\ msPc' = "multi"
    /\ UNCHANGED <<msArgs, msWalk, contour, others>>

----------------------------------------------------------------------------
(* The editor page: the handlers that trace                                *)
(*                                                                         *)
(* traceFromImage is asynchronous: a handler runs up to its await, the     *)
(* call settles at some later time, and the rest of the handler runs       *)
(* then.  The view state the handlers reset (zoom, pan, selection) is not  *)
(* part of the model, and the image traced is the same for every call.     *)

\* Bound: the number of traceFromImage calls started in one session.
MaxTraces == 2

\* useState(5) of traceError
DefaultTraceError == 5

\* Values of the error tolerance slider (min 1, max 20).
TraceErrorSamples == {5, 20}

\* Anchor keys `${strokeIndex}-${segmentIndex}-${pointType}` a double click
\* can toggle.
AnchorKeys == {"0-0-p0"}

\* A value that may be null: <<>> is null, <<v>> holds v.
Null == <<>>
Some(v) == <<v>>

\* The strokes traceFromImage resolves with depend on the tolerance: one
\* stroke of one segment, which stands for the curves fitted with it.
Curves(tolerance) == << <<tolerance>> >>

\* What a traceFromImage call may resolve with: curves, no stroke, or an
\* empty first stroke.
TraceResults(tolerance) == {Curves(tolerance), <<>>, << <<>> >>}

\* result.length > 0 && result[0].length > 0
HasCurves(result) == Len(result) > 0 /\ Len(result[1]) > 0

\* JSON.stringify(data)
Stringify(data) == [json |-> data]

\* The project loaded from /talkie-bezier.json.
DemoStrokes == Curves(0)

\* const MAX_HISTORY = 100
MAX_HISTORY == 100

\* The delays of the two setTimeout calls, in ms
PushDelay == 300
AutoSaveDelay == 2000

\* Bounds: the changes the user makes in a session (edits, smooth toggles,
\* undos and redos) and the auto-saves counted.
MaxEdits == 3
MaxSaves == 2

\* JSON.parse(json)
Parse(s) == s.json

\* The curve data an edit can give.
EditSamples == {Some([strokes |-> Curves(1)]), Some([strokes |-> Curves(2)])}

\* The refs and timers the effects work with, as one record.
EffectState ==
    [timers |-> timers, pushHistoryRef |-> pushHistoryRef, autoSaveRef |-> autoSaveRef,
     autoSaveCleanup |-> autoSaveCleanup, isUndoRedoRef |-> isUndoRedoRef,
     initialLoadRef |-> initialLoadRef]

\* clearTimeout(id)
ClearTimeout(ts, id) == {t \in ts : t.id # id}

\* The id setTimeout returns: one no live timer has.
FreshId(ts) == CHOOSE i \in 1..(Cardinality(ts) + 1) : \A t \in ts : t.id # i

\* ref.current = setTimeout(callback, delay), the ref's timer cleared before
SetPushTimer(es, ts, data) ==
    [es EXCEPT !.timers = ts \cup {[id |-> FreshId(ts), kind |-> "push", left |-> PushDelay,
                                    data |-> data, smooth |-> <<>>]},
               !.pushHistoryRef = FreshId(ts)]

\* The effect on [bezierData] (lines 329-344)
PushHistoryEffect(es, data) ==
    IF data = Null \/ es.isUndoRedoRef
    THEN [es EXCEPT !.isUndoRedoRef = FALSE]
    ELSE SetPushTimer(es, ClearTimeout(es.timers, es.pushHistoryRef), data)

\* The cleanup the auto-save effect returned at its last run, if it did
AutoSaveCleanup(es) ==
    IF es.autoSaveCleanup
    THEN [es EXCEPT !.timers = ClearTimeout(es.timers, es.autoSaveRef),
                    !.autoSaveRef = 0, !.autoSaveCleanup = FALSE]
    ELSE es

\* autoSaveRef.current = setTimeout(...), the ref's timer cleared before
SetSaveTimer(es, ts, data, smooth) ==
    [es EXCEPT !.timers = ts \cup {[id |-> FreshId(ts), kind |-> "save", left |-> AutoSaveDelay,
                                    data |-> data, smooth |-> smooth]},
               !.autoSaveRef = FreshId(ts),
               !.autoSaveCleanup = TRUE]

\* The auto-save effect without its initialLoadRef test
AutoSaveEffectEager(es, data, smooth) ==
    IF data = Null THEN es
    ELSE SetSaveTimer([es EXCEPT !.initialLoadRef = FALSE],
                      ClearTimeout(es.timers, es.autoSaveRef), data, smooth)

\* The effect on [bezierData, smoothStates, saveToDisk] (lines 385-398)
AutoSaveEffect(es, data, smooth) ==
    IF data = Null THEN es
    ELSE IF es.initialLoadRef THEN [es EXCEPT !.initialLoadRef = FALSE]
    ELSE SetSaveTimer(es, ClearTimeout(es.timers, es.autoSaveRef), data, smooth)

\* The effects of the render after bezierData was set to data
AfterDataChange(es, data, smooth) ==
    AutoSaveEffect(PushHistoryEffect(AutoSaveCleanup(es), data), data, smooth)

\* The effects of the render after only smoothStates was set
AfterSmoothChange(es, data, smooth) ==
    AutoSaveEffect(AutoSaveCleanup(es), data, smooth)

\* The refs and timers become those of es; the change is noted.
Commit(es) ==
    /\ timers' = es.timers
    /\ pushHistoryRef' = es.pushHistoryRef
    /\ autoSaveRef' = es.autoSaveRef
    /\ autoSaveCleanup' = es.autoSaveCleanup
    /\ isUndoRedoRef' = es.isUndoRedoRef
    /\ initialLoadRef' = es.initialLoadRef
    /\ sinceChange' = 0

\* No timer is pending and nothing was saved; initial is initialLoadRef.
EditSettled(initial) ==
    /\ timers = {} /\ pushHistoryRef = 0 /\ autoSaveRef = 0
    /\ autoSaveCleanup = FALSE /\ isUndoRedoRef = FALSE
    /\ initialLoadRef = initial
    /\ sinceChange = AutoSaveDelay
    /\ lastSaved = Null /\ saveCount = 0 /\ edits = 0

EditIdle == EditSettled(TRUE)

HostIdle ==
    /\ traceError = 0 /\ isTracing = FALSE
    /\ bezierData = Null /\ anchorsData = Null /\ smoothStates = <<>>
    /\ historyRef = <<>> /\ historyIndexRef = 0
    /\ showDropZone = FALSE /\ imageWarnings = 0
    /\ showActionsMenu = FALSE /\ isCmdPaletteOpen = FALSE
    /\ traces = <<>>
    /\ EditIdle

\* The page once the load effect has settled: the existing project is
\* loaded, or there is none and the drop zone shows.
HostInit ==
    /\ traceError = DefaultTraceError
    /\ isTracing = FALSE
    /\ smoothStates = <<>>
    /\ imageWarnings = 0
    /\ showActionsMenu = FALSE
    /\ isCmdPaletteOpen = FALSE
    /\ traces = <<>>
    /\ \/ /\ bezierData = Some([strokes |-> DemoStrokes])
          /\ anchorsData = Some("loaded")
          /\ historyRef = <<Stringify([strokes |-> DemoStrokes])>>
          /\ historyIndexRef = 0
          /\ showDropZone = FALSE
          /\ EditSettled(FALSE)
       \/ /\ bezierData = Null
          /\ anchorsData = Null
          /\ historyRef = <<>>
          /\ historyIndexRef = -1
          /\ showDropZone = TRUE
          /\ EditSettled(TRUE)

notHost == <<otsuVars, hystVars, rdpVars, msVars, fitVars, extVars>>
notEditor == <<otsuVars, hystVars, rdpVars, msVars, fitVars, trVars, imageVars>>

\* showEditor, without the initial load and the project image.
showEditor == ~showDropZone /\ bezierData # Null

\* The tolerance slider's onChange.
SetTraceError ==
    /\ showEditor
    /\ \E v \in TraceErrorSamples : v # traceError /\ traceError' = v
    /\ UNCHANGED <<isTracing, hostData, hostView, traces, notHost>>

\* Alt + double click on an anchor of the displayed curves.
ToggleSmooth ==
    /\ showEditor
    /\ edits < MaxEdits
    /\ \E anchorKey \in AnchorKeys :
         smoothStates' =
            [k \in DOMAIN smoothStates \cup {anchorKey} |->
                IF k = anchorKey
                THEN IF k \in DOMAIN smoothStates THEN ~smoothStates[k] ELSE TRUE
                ELSE smoothStates[k]]
    /\ Commit(AfterSmoothChange(EffectState, bezierData, smoothStates'))
    /\ edits' = edits + 1
    /\ UNCHANGED <<traceError, isTracing, bezierData, anchorsData, historyRef,
                   historyIndexRef, hostView, traces, lastSaved, saveCount, notEditor>>

\* The actions menu button.
ToggleActionsMenu ==
    /\ showEditor
    /\ showActionsMenu' = ~showActionsMenu
    /\ UNCHANGED <<traceError, isTracing, hostData, showDropZone, imageWarnings,
                   isCmdPaletteOpen, traces, notHost>>

\* Cmd+K.
ToggleCommandPalette ==
    /\ isCmdPaletteOpen' = ~isCmdPaletteOpen
    /\ UNCHANGED <<traceError, isTracing, hostData, showDropZone, imageWarnings,
                   showActionsMenu, traces, notHost>>

\* A handler up to its await: setIsTracing(true) and the call of
\* traceFromImage with the tolerance.
StartTrace(kind, tolerance) ==
    /\ Len(traces) < MaxTraces
    /\ isTracing' = TRUE
    /\ traces' = Append(traces, [kind |-> kind, tolerance |-> tolerance, state |-> "pending"])

\* The Re-trace entry of the actions menu (disabled while isTracing).
RetraceFromMenu ==
    /\ showEditor /\ showActionsMenu
    /\ ~isTracing
    /\ StartTrace("retrace", traceError)
    /\ showActionsMenu' = FALSE
    /\ UNCHANGED <<traceError, hostData, showDropZone, imageWarnings, isCmdPaletteOpen, notHost>>

\* The "retrace" command of the command palette: cmd.action(); onClose().
RetraceFromPalette ==
    /\ isCmdPaletteOpen
    /\ StartTrace("retrace", traceError)
    /\ isCmdPaletteOpen' = FALSE
    /\ UNCHANGED <<traceError, hostData, showDropZone, imageWarnings, showActionsMenu, notHost>>

\* The Extract Shapes button of the drop zone (disabled while isTracing).
ExtractShapes ==
    /\ showDropZone
    /\ ~isTracing
    /\ \E dropTraceError \in TraceErrorSamples : StartTrace("project", dropTraceError)
    /\ UNCHANGED <<traceError, hostData, hostView, notHost>>

Settled(i, state) == [traces EXCEPT ![i].state = state]

\* handleRetrace after its await: the call resolved with result.
RetraceResolves(i, result) ==
    /\ IF HasCurves(result)
       THEN /\ bezierData' = Some([strokes |-> result])
            /\ smoothStates' = <<>>
            /\ Commit(AfterDataChange(EffectState, bezierData', smoothStates'))
       ELSE UNCHANGED <<bezierData, smoothStates, editRefs>>
    /\ isTracing' = FALSE
    /\ traces' = Settled(i, IF HasCurves(result) THEN "curves" ELSE "empty")
    /\ UNCHANGED <<traceError, anchorsData, historyRef, historyIndexRef, hostView,
                   editLog, notEditor>>

\* startProjectFromImage after its await: the call resolved with result.
ProjectResolves(i, result) ==
    /\ IF HasCurves(result)
       THEN /\ bezierData' = Some([strokes |-> result])
            /\ smoothStates' = <<>>
            /\ anchorsData' = Some("none")
            /\ historyRef' = <<Stringify([strokes |-> result])>>
            /\ historyIndexRef' = 0
            /\ showDropZone' = FALSE
            /\ Commit(AfterDataChange(EffectState, bezierData', smoothStates'))
            /\ UNCHANGED imageWarnings
       ELSE /\ imageWarnings' = imageWarnings + 1
            /\ UNCHANGED <<hostData, showDropZone, editRefs>>
    /\ isTracing' = FALSE
    /\ traces' = Settled(i, IF HasCurves(result) THEN "curves" ELSE "empty")
    /\ UNCHANGED <<traceError, showActionsMenu, isCmdPaletteOpen, editLog, notEditor>>

\* A pending call resolves and its handler runs on.
TraceResolves ==
    \E i \in 1..Len(traces) :
        /\ traces[i].state = "pending"
        /\ \E result \in TraceResults(traces[i].tolerance) :
             IF traces[i].kind = "retrace"
             THEN RetraceResolves(i, result)
             ELSE ProjectResolves(i, result)

\* A pending call rejects: the handler's catch and finally.
TraceRejects ==
    \E i \in 1..Len(traces) :
        /\ traces[i].state = "pending"
        /\ imageWarnings' = IF traces[i].kind = "project" THEN imageWarnings + 1 ELSE imageWarnings
        /\ isTracing' = FALSE
        /\ traces' = Settled(i, "rejected")
        /\ UNCHANGED <<traceError, hostData, showDropZone, showActionsMenu,
                       isCmdPaletteOpen, notHost>>

----------------------------------------------------------------------------
(* The editor page: undo history and auto-save                             *)
(*                                                                         *)
(* A handler that sets bezierData or smoothStates is followed by the       *)
(* render's effects: the one that pushes to the undo history (after 300    *)
(* ms) and the one that saves to disk (after 2 s).  A timer is a record of *)
(* its id, the time it has left and the values its callback has closed     *)
(* over; a ref to a timer that has fired or was cleared is held as 0, as   *)
(* clearTimeout does nothing with it.  Time passes in the Tick action.     *)

\* The page at mount, its load effect pending.
EditMount ==
    /\ traceError = DefaultTraceError /\ isTracing = FALSE
    /\ bezierData = Null /\ anchorsData = Null /\ smoothStates = <<>>
    /\ historyRef = <<>> /\ historyIndexRef = -1
    /\ showDropZone = FALSE /\ imageWarnings = 0
    /\ showActionsMenu = FALSE /\ isCmdPaletteOpen = FALSE
    /\ traces = <<>>
    /\ EditSettled(TRUE)

\* Lengths of the history of a long session, and the snapshots it holds:
\* the loaded project first, then two curve sets in turn.
HistoryLengths == {MAX_HISTORY - 1, MAX_HISTORY}
LongHistory(n) == [i \in 1..n |-> Stringify([strokes |-> Curves((i + 1) % 2)])]

\* The editor late in a session: a long history, the index at its end or
\* one undo before it, and the curves of that snapshot shown.
EditLate ==
    /\ traceError = DefaultTraceError /\ isTracing = FALSE
    /\ anchorsData = Some("loaded") /\ smoothStates = <<>>
    /\ \E n \in HistoryLengths :
         /\ historyRef = LongHistory(n)
         /\ historyIndexRef \in {n - 2, n - 1}
    /\ bezierData = Some(Parse(historyRef[historyIndexRef + 1]))
    /\ showDropZone = FALSE /\ imageWarnings = 0
    /\ showActionsMenu = FALSE /\ isCmdPaletteOpen = FALSE
    /\ traces = <<>>
    /\ EditSettled(FALSE)

\* isInitialLoad: the load effect has not settled
loading == bezierData = Null /\ ~showDropZone /\ initialLoadRef

\* The load effect's then: both files were fetched.
LoadResolves ==
    /\ loading
    /\ bezierData' = Some([strokes |-> DemoStrokes])
    /\ anchorsData' = Some("loaded")
    /\ historyRef' = <<Stringify([strokes |-> DemoStrokes])>>
    /\ historyIndexRef' = 0
    /\ Commit(AfterDataChange(EffectState, bezierData', smoothStates))
    /\ UNCHANGED <<traceError, isTracing, smoothStates, hostView, traces, editLog, notEditor>>

\* The load effect's catch: there is no project.
LoadRejects ==
    /\ loading
    /\ showDropZone' = TRUE
    /\ UNCHANGED <<traceError, isTracing, hostData, imageWarnings, showActionsMenu,
                   isCmdPaletteOpen, traces, notHost>>

\* A handler that edits the curves (drag, nudge, delete, pen stroke):
\* setBezierData with the edited copy.
EditCurves ==
    /\ showEditor
    /\ edits < MaxEdits
    /\ \E data \in EditSamples :
         /\ data # bezierData
         /\ bezierData' = data
    /\ Commit(AfterDataChange(EffectState, bezierData', smoothStates))
    /\ edits' = edits + 1
    /\ UNCHANGED <<traceError, isTracing, anchorsData, smoothStates, historyRef,
                   historyIndexRef, hostView, traces, lastSaved, saveCount, notEditor>>

\* undo()
Undo ==
    /\ historyIndexRef > 0
    /\ edits < MaxEdits
    /\ historyIndexRef' = historyIndexRef - 1
    /\ bezierData' = Some(Parse(historyRef[historyIndexRef' + 1]))
    /\ Commit(AfterDataChange([EffectState EXCEPT !.isUndoRedoRef = TRUE],
                              bezierData', smoothStates))
    /\ edits' = edits + 1
    /\ UNCHANGED <<traceError, isTracing, anchorsData, smoothStates, historyRef,
                   hostView, traces, lastSaved, saveCount, notEditor>>

\* redo()
Redo ==
    /\ historyIndexRef < Len(historyRef) - 1
    /\ edits < MaxEdits
    /\ historyIndexRef' = historyIndexRef + 1
    /\ bezierData' = Some(Parse(historyRef[historyIndexRef' + 1]))
    /\ Commit(AfterDataChange([EffectState EXCEPT !.isUndoRedoRef = TRUE],
                              bezierData', smoothStates))
    /\ edits' = edits + 1
    /\ UNCHANGED <<traceError, isTracing, anchorsData, smoothStates, historyRef,
                   hostView, traces, lastSaved, saveCount, notEditor>>

\* The New Project entry of the actions menu.
NewProject ==
    /\ showEditor /\ showActionsMenu
    /\ bezierData' = Null
    /\ anchorsData' = Null
    /\ smoothStates' = <<>>
    /\ imageWarnings' = 0
    /\ showDropZone' = TRUE
    /\ historyRef' = <<>>
    /\ historyIndexRef' = -1
    /\ showActionsMenu' = FALSE
    /\ Commit(AfterDataChange(EffectState, Null, <<>>))
    /\ UNCHANGED <<traceError, isTracing, isCmdPaletteOpen, traces, editLog, notEditor>>

\* historyRef.current[historyIndexRef.current] === json
IsCurrent(history, index, json) ==
    index >= 0 /\ index < Len(history) /\ history[index + 1] = json

\* The history after the push, the oldest snapshot kept
PushSnapshotKeepAll(history, index, json) ==
    SubSeq(history, 1, index + 1) \o <<json>>

\* slice(0, index + 1), push(json), and shift() beyond MAX_HISTORY
PushSnapshot(history, index, json) ==
    LET pushed == SubSeq(history, 1, index + 1) \o <<json>>
    IN  IF Len(pushed) > MAX_HISTORY THEN Tail(pushed) ELSE pushed

\* The ref of a timer that is gone reads as null.
Forget(ref, id) == IF ref = id THEN 0 ELSE ref

\* The callback of the push timer runs.
PushTimerFires ==
    \E t \in timers :
        /\ t.kind = "push" /\ t.left = 0
        /\ timers' = timers \ {t}
        /\ pushHistoryRef' = Forget(pushHistoryRef, t.id)
        /\ IF IsCurrent(historyRef, historyIndexRef, Stringify(t.data[1]))
           THEN UNCHANGED <<historyRef, historyIndexRef>>
           ELSE /\ historyRef' = PushSnapshot(historyRef, historyIndexRef, Stringify(t.data[1]))
                /\ historyIndexRef' = Len(historyRef') - 1
        /\ UNCHANGED <<traceError, isTracing, bezierData, anchorsData, smoothStates,
                       hostView, traces, autoSaveRef, autoSaveCleanup, isUndoRedoRef,
                       initialLoadRef, sinceChange, editLog, notEditor>>

\* The callback of the auto-save timer runs: saveToDisk(bezierData,
\* smoothStates) with the values of its render.
AutoSaveFires ==
    \E t \in timers :
        /\ t.kind = "save" /\ t.left = 0
        /\ saveCount < MaxSaves
        /\ timers' = timers \ {t}
        /\ autoSaveRef' = Forget(autoSaveRef, t.id)
        /\ lastSaved' = Some([bezier |-> t.data, smooth |-> t.smooth])
        /\ saveCount' = saveCount + 1
        /\ UNCHANGED <<hostVars, pushHistoryRef, autoSaveCleanup, isUndoRedoRef,
                       initialLoadRef, sinceChange, edits, notEditor>>

\* The time to the next timer
TimeToNext == CHOOSE d \in {t.left : t \in timers} : \A t \in timers : d <= t.left

\* Time passes: PushDelay, or the time to the next timer, and no more than
\* that.
Tick ==
    /\ timers # {}
    /\ \E d \in {PushDelay, TimeToNext} :
         /\ d > 0
         /\ d <= TimeToNext
         /\ timers' = {[t EXCEPT !.left = @ - d] : t \in timers}
         /\ sinceChange' = Min(sinceChange + d, AutoSaveDelay)
    /\ UNCHANGED <<hostVars, pushHistoryRef, autoSaveRef, autoSaveCleanup, isUndoRedoRef,
                   initialLoadRef, editLog, notEditor>>

----------------------------------------------------------------------------
(* Numbers of the curve fitter                                             *)
(*                                                                         *)
(* The fitter computes with doubles.  Here a number is fixed-point: the    *)
(* integer v stands for v / Scale, results are rounded down to a multiple  *)
(* of 1 / Scale, and a result beyond Cap in size is held at Cap, as a      *)
(* double beyond its range is held at Infinity.                            *)

Scale == 1000
Cap == 1000000000

Sign(v) == IF v > 0 THEN 1 ELSE IF v < 0 THEN -1 ELSE 0
Sat(v) == IF v > Cap THEN Cap ELSE IF v < -Cap THEN -Cap ELSE v

\* a + b and a - b
Plus(a, b) == Sat(a + b)
Minus(a, b) == Sat(a - b)

\* k * a for a literal k of the code (3, 6, 12)
Times(k, a) == IF Abs(a) > Cap \div k THEN Sign(a) * Cap ELSE k * a

\* a * b, the product left at the scale Scale * Scale
MulRaw(a, b) ==
    IF a = 0 \/ b = 0 THEN 0
    ELSE IF Abs(b) > Cap \div Abs(a) THEN Sign(a) * Sign(b) * Cap
    ELSE a * b

\* a * b
MulS(a, b) ==
    LET ah == a \div Scale
        al == a % Scale
        bh == b \div Scale
        bl == b % Scale
    IN  IF ah # 0 /\ Abs(bh) > (Cap \div Scale) \div Abs(ah)
        THEN Sign(a) * Sign(b) * Cap
        ELSE Plus(Plus(ah * bh * Scale, ah * bl), Plus(al * bh, (al * bl) \div Scale))

\* a / b for b # 0
RECURSIVE DivS(_, _)
DivS(a, b) ==
    IF b < 0 THEN DivS(-a, -b)
    ELSE IF b > (2 * Cap) \div Scale THEN DivS(a \div Scale, b \div Scale)
    ELSE LET q == a \div b
             r == a % b
         IN  IF Abs(q) > Cap \div Scale THEN Sign(q) * Cap
             ELSE Sat(q * Scale + (r * Scale) \div b)

\* The largest r in lo..hi with r * r <= n, given lo * lo <= n.
RECURSIVE IsqrtIn(_, _, _)
IsqrtIn(n, lo, hi) ==
    IF lo = hi THEN lo
    ELSE LET mid == (lo + hi + 1) \div 2
         IN  IF mid * mid <= n THEN IsqrtIn(n, mid, hi) ELSE IsqrtIn(n, lo, mid - 1)

\* Math.sqrt, rounded down; 46340 is the largest integer whose square is a
\* 32-bit integer.
Isqrt(n) == IsqrtIn(n, 0, 46340)

\* Math.hypot(x, y); large arguments are scaled down before squaring.
HypotBig == Isqrt(Cap)
Hypot(x, y) ==
    LET ax == Abs(x)
        ay == Abs(y)
        m == Max(ax, ay)
        sh == m \div HypotBig + 1
    IN  IF m > HypotBig
        THEN Sat(sh * Isqrt((ax \div sh) * (ax \div sh) + (ay \div sh) * (ay \div sh)))
        ELSE Isqrt(ax * ax + ay * ay)

----------------------------------------------------------------------------
(* fitCurve                                                                *)
(*                                                                         *)
(* A point is <<x, y>>, a BezierCtrl <<p0, c1, c2, p3>>; indices into      *)
(* points and u are the code's (from 0), read with At.                     *)

\* Bound: the polylines have up to MaxFitLen points.
MaxFitLen == 5

\* The error tolerances fitted with, in halves (0.5 and 1.5).
FitErrHalvesSamples == {1, 3}

\* depth > 50 in fitCubic
DepthCap == 50

\* iter < 5 in fitCubic
ReparamRounds == 5

At(seq, i) == seq[i + 1]

\* points[points.length - 1] with the index one too small.
LastOfShort(pts) == At(pts, Max(Len(pts) - 2, 0))

\* points[points.length - 1]
LastOf(pts) == At(pts, Len(pts) - 1)

add(a, b) == <<Plus(a[1], b[1]), Plus(a[2], b[2])>>
sub(a, b) == <<Minus(a[1], b[1]), Minus(a[2], b[2])>>
mul(a, k) == <<MulS(a[1], k), MulS(a[2], k)>>
dot(a, b) == Plus(MulS(a[1], b[1]), MulS(a[2], b[2]))
len(v) == Hypot(v[1], v[2])

normalize(v) ==
    LET l == len(v)
    IN  IF l = 0 THEN <<0, 0>> ELSE <<DivS(v[1], l), DivS(v[2], l)>>

\* a * ctrl[0] + b * ctrl[1] + c * ctrl[2] + d * ctrl[3], per coordinate
Blend(ctrl, a, b, c, d) ==
    [k \in 1..2 |->
        Plus(Plus(MulS(a, ctrl[1][k]), MulS(b, ctrl[2][k])),
             Plus(MulS(c, ctrl[3][k]), MulS(d, ctrl[4][k])))]

bezierQ(ctrl, t) ==
    LET mt == Minus(Scale, t)
        mt2 == MulS(mt, mt)
        t2 == MulS(t, t)
    IN  Blend(ctrl, MulS(mt2, mt), Times(3, MulS(mt2, t)), Times(3, MulS(mt, t2)), MulS(t2, t))

bezierQPrime(ctrl, t) ==
    LET mt == Minus(Scale, t)
    IN  Blend(ctrl,
              -Times(3, MulS(mt, mt)),
              Minus(Times(3, MulS(mt, mt)), Times(6, MulS(mt, t))),
              Minus(Times(6, MulS(mt, t)), Times(3, MulS(t, t))),
              Times(3, MulS(t, t)))

bezierQPrime2(ctrl, t) ==
    LET mt == Minus(Scale, t)
    IN  Blend(ctrl,
              Times(6, mt),
              Plus(-Times(12, mt), Times(6, t)),
              Minus(Times(6, mt), Times(12, t)),
              Times(6, t))

\* u[i] of chordLengthParameterize before the division by total.
RECURSIVE ChordSum(_, _)
ChordSum(pts, i) ==
    IF i = 0 THEN 0
    ELSE Plus(ChordSum(pts, i - 1), len(sub(At(pts, i), At(pts, i - 1))))

chordLengthParameterize(pts) ==
    LET total == ChordSum(pts, Len(pts) - 1)
    IN  IF total = 0 THEN [i \in 1..Len(pts) |-> 0]
        ELSE [i \in 1..Len(pts) |-> DivS(ChordSum(pts, i - 1), total)]

\* The end of newtonRaphsonRootFind, given q, q1 and q2.
NewtonStep(point, t, q, q1, q2) ==
    LET numerator == dot(sub(q, point), q1)
        denominator == Plus(dot(q1, q1), dot(sub(q, point), q2))
    IN  IF denominator = 0 THEN t ELSE Minus(t, DivS(numerator, denominator))

newtonRaphsonRootFind(bezier, point, t) ==
    NewtonStep(point, t, bezierQ(bezier, t), bezierQPrime(bezier, t), bezierQPrime2(bezier, t))

reparameterize(pts, u, bezier) ==
    [i \in 1..Len(pts) |-> newtonRaphsonRootFind(bezier, pts[i], u[i])]

\* One turn of the loop of generateBezier: the sums c and x with the term
\* of a1, a2 and tmp added.
AddTerm(acc, a1, a2, tmp) ==
    [c00 |-> Plus(acc.c00, dot(a1, a1)),
     c01 |-> Plus(acc.c01, dot(a1, a2)),
     c10 |-> Plus(acc.c10, dot(a1, a2)),
     c11 |-> Plus(acc.c11, dot(a2, a2)),
     x0 |-> Plus(acc.x0, dot(a1, tmp)),
     x1 |-> Plus(acc.x1, dot(a2, tmp))]

\* a1, a2 and tmp of the loop of generateBezier for the point pt at ui.
TermOf(acc, pt, p0, p3, leftTan, rightTan, ui) ==
    LET m == Minus(Scale, ui)
        b0 == MulS(MulS(m, m), m)
        b1 == Times(3, MulS(ui, MulS(m, m)))
        b2 == Times(3, MulS(MulS(ui, ui), m))
        b3 == MulS(MulS(ui, ui), ui)
    IN  AddTerm(acc, mul(leftTan, b1), mul(rightTan, b2),
                sub(pt, add(mul(p0, b0), mul(p3, b3))))

\* The sums c and x of generateBezier after the terms 0..i-1.
RECURSIVE BezierSums(_, _, _, _, _)
BezierSums(pts, u, leftTan, rightTan, i) ==
    IF i = 0 THEN [c00 |-> 0, c01 |-> 0, c10 |-> 0, c11 |-> 0, x0 |-> 0, x1 |-> 0]
    ELSE TermOf(BezierSums(pts, u, leftTan, rightTan, i - 1),
                At(pts, i - 1), pts[1], LastOf(pts), leftTan, rightTan, At(u, i - 1))

\* The determinant and the numerators of generateBezier are kept at the
\* scale Scale * Scale, where 1e-6 is one unit.
DetC0C1(s) == Minus(MulRaw(s.c00, s.c11), MulRaw(s.c10, s.c01))

\* alphaL and alphaR before the fallback.
AlphaL(s, det) ==
    IF Abs(det) > 1 THEN DivS(Minus(MulRaw(s.x0, s.c11), MulRaw(s.x1, s.c01)), det) ELSE 0
AlphaR(s, det) ==
    IF Abs(det) > 1 THEN DivS(Minus(MulRaw(s.c00, s.x1), MulRaw(s.c10, s.x0)), det) ELSE 0

\* The end of generateBezier: the fallback and the control points (an alpha
\* below 1e-6 is an alpha below one unit).
Controls(p0, p3, leftTan, rightTan, alphaL, alphaR, segLength) ==
    IF alphaL < 1 \/ alphaR < 1
    THEN <<p0, add(p0, mul(leftTan, segLength \div 3)),
           add(p3, mul(rightTan, segLength \div 3)), p3>>
    ELSE <<p0, add(p0, mul(leftTan, alphaL)), add(p3, mul(rightTan, alphaR)), p3>>

SolveFor(p0, p3, leftTan, rightTan, s, det) ==
    Controls(p0, p3, leftTan, rightTan, AlphaL(s, det), AlphaR(s, det), len(sub(p3, p0)))

SolveWith(p0, p3, leftTan, rightTan, s) == SolveFor(p0, p3, leftTan, rightTan, s, DetC0C1(s))

generateBezier(pts, u, leftTan, rightTan) ==
    SolveWith(pts[1], LastOf(pts), leftTan, rightTan,
              BezierSums(pts, u, leftTan, rightTan, Len(u)))

\* The loop of computeMaxError from index i on; d is the distance at i.
RECURSIVE MaxErrorFrom(_, _, _, _, _, _)
MaxErrorStep(pts, bezier, u, i, maxDist, split, d) ==
    IF d > maxDist
    THEN MaxErrorFrom(pts, bezier, u, i + 1, d, i)
    ELSE MaxErrorFrom(pts, bezier, u, i + 1, maxDist, split)

MaxErrorFrom(pts, bezier, u, i, maxDist, split) ==
    IF i >= Len(pts) THEN [maxError |-> maxDist, split |-> split]
    ELSE MaxErrorStep(pts, bezier, u, i, maxDist, split,
                      len(sub(bezierQ(bezier, At(u, i)), At(pts, i))))

computeMaxError(pts, bezier, u) == MaxErrorFrom(pts, bezier, u, 0, 0, Len(pts) \div 2)

\* maxError < error, with the error squared.
AcceptsSquared(maxError, error) == maxError < MulS(error, error)

\* maxError < error
Accepts(maxError, error) == maxError < error

\* A segment fitCubic returns, with what it was fitted to: the sub-polyline,
\* the parameters u, the depth, and the branch that returned it.
FitSegment(ctrl, pts, u, depth, how) ==
    [ctrl |-> ctrl, src |-> pts, u |-> u, depth |-> depth, how |-> how]

\* u, bezier, maxError and split of fitCubic after generateBezier and
\* computeMaxError, and whether maxError < error.
FitStateOf(error, u, bezier, e) ==
    [u |-> u, bezier |-> bezier, maxError |-> e.maxError, split |-> e.split,
     accepted |-> Accepts(e.maxError, error)]

FitStateWith(pts, error, u, bezier) ==
    FitStateOf(error, u, bezier, computeMaxError(pts, bezier, u))

FitState(pts, leftTan, rightTan, error, u) ==
    FitStateWith(pts, error, u, generateBezier(pts, u, leftTan, rightTan))

\* The reparameterization loop of fitCubic from round iter on.
RECURSIVE ReparamLoop(_, _, _, _, _, _)
ReparamNext(pts, leftTan, rightTan, error, next, iter) ==
    IF next.accepted THEN next
    ELSE ReparamLoop(pts, leftTan, rightTan, error, next, iter + 1)

ReparamLoop(pts, leftTan, rightTan, error, st, iter) ==
    IF iter >= ReparamRounds THEN st
    ELSE ReparamNext(pts, leftTan, rightTan, error,
                     FitState(pts, leftTan, rightTan, error,
                              reparameterize(pts, st.u, st.bezier)),
                     iter)

\* The base case of fitCubic.
BaseSegment(pts, leftTan, rightTan, depth, dist) ==
    <<FitSegment(<<pts[1],
                   add(pts[1], mul(leftTan, dist)),
                   add(LastOf(pts), mul(rightTan, dist)),
                   LastOf(pts)>>,
                 pts, <<>>, depth, "base")>>

\* "Ensure split is valid for recursion"
ClampSplit(split, n) ==
    LET s1 == IF split <= 0 THEN 1 ELSE split
    IN  IF s1 >= n - 1 THEN n - 2 ELSE s1

RECURSIVE fitCubic(_, _, _, _, _)

\* The recursion of fitCubic at split, the right part first.
SplitWithRightFirst(pts, leftTan, rightTan, error, depth, split, centerTan) ==
    fitCubic(SubSeq(pts, split + 1, Len(pts)), mul(centerTan, -Scale), rightTan,
             error, depth + 1)
        \o fitCubic(SubSeq(pts, 1, split + 1), leftTan, centerTan, error, depth + 1)

\* The recursion of fitCubic at split.
SplitWith(pts, leftTan, rightTan, error, depth, split, centerTan) ==
    fitCubic(SubSeq(pts, 1, split + 1), leftTan, centerTan, error, depth + 1)
        \o fitCubic(SubSeq(pts, split + 1, Len(pts)), mul(centerTan, -Scale), rightTan,
                    error, depth + 1)

SplitAt(pts, leftTan, rightTan, error, depth, split) ==
    SplitWith(pts, leftTan, rightTan, error, depth, split,
              normalize(sub(At(pts, split - 1), At(pts, split + 1))))

\* fitCubic after the reparameterization loop, or without it.
FitAfter(pts, leftTan, rightTan, error, depth, st) ==
    IF st.accepted
    THEN <<FitSegment(st.bezier, pts, st.u, depth, "reparam")>>
    ELSE SplitAt(pts, leftTan, rightTan, error, depth, ClampSplit(st.split, Len(pts)))

\* fitCubic after the first generateBezier and computeMaxError, entering the
\* reparameterization loop whatever the error.
FitFromAnyError(pts, leftTan, rightTan, error, depth, st0) ==
    IF st0.accepted
    THEN <<FitSegment(st0.bezier, pts, st0.u, depth, "first")>>
    ELSE FitAfter(pts, leftTan, rightTan, error, depth,
                  ReparamLoop(pts, leftTan, rightTan, error, st0, 0))

\* fitCubic after the first generateBezier and computeMaxError.
FitFrom(pts, leftTan, rightTan, error, depth, st0) ==
    IF st0.accepted
    THEN <<FitSegment(st0.bezier, pts, st0.u, depth, "first")>>
    ELSE FitAfter(pts, leftTan, rightTan, error, depth,
                  IF st0.maxError < MulS(error, error)
                  THEN ReparamLoop(pts, leftTan, rightTan, error, st0, 0)
                  ELSE st0)

\* fitCubic without the cut at DepthCap.
fitCubicUncut(pts, leftTan, rightTan, error, depth) ==
    IF Len(pts) = 2
    THEN BaseSegment(pts, leftTan, rightTan, depth, len(sub(pts[1], LastOf(pts))) \div 3)
    ELSE FitFrom(pts, leftTan, rightTan, error, depth,
                 FitState(pts, leftTan, rightTan, error, chordLengthParameterize(pts)))

fitCubic(pts, leftTan, rightTan, error, depth) ==
    IF Len(pts) = 2 \/ depth > DepthCap
    THEN BaseSegment(pts, leftTan, rightTan, depth, len(sub(pts[1], LastOf(pts))) \div 3)
    ELSE FitFrom(pts, leftTan, rightTan, error, depth,
                 FitState(pts, leftTan, rightTan, error, chordLengthParameterize(pts)))

fitCurve(pts, error) ==
    IF Len(pts) < 2 THEN <<>>
    ELSE fitCubic(pts,
                  normalize(sub(At(pts, 1), At(pts, 0))),
                  normalize(sub(At(pts, Len(pts) - 2), LastOf(pts))),
                  error, 0)

\* The polylines fitted: from the origin by unit steps in these directions.
FitSteps == {<<1, 0>>, <<1, 1>>, <<0, 1>>, <<-1, 1>>, <<1, -1>>}

FitPolylines ==
    {LET line == PolylineFrom(<<0, 0>>, st)
     IN  [i \in 1..Len(line) |-> <<line[i][1] * Scale, line[i][2] * Scale>>] :
        st \in SeqsOf(FitSteps, 0, MaxFitLen - 1)}

\* The error tolerance, given in halves.
FitError(halves) == (halves * Scale) \div 2

FitIdle ==
    fitPoints = <<>> /\ fitErrHalves = 0 /\ fitDepth = 0 /\ fitted = <<>> /\ fitPc = "idle"

FitInit ==
    /\ fitPoints \in FitPolylines
    /\ fitErrHalves \in FitErrHalvesSamples
    /\ fitDepth = 0
    /\ fitted = <<>>
    /\ fitPc = "call"

\* fitCurve called with a polyline of no point, or of up to three.
FitInitShort ==
    /\ fitPoints \in {pts \in FitPolylines : Len(pts) <= 3} \cup {<<>>}
    /\ fitErrHalves \in FitErrHalvesSamples
    /\ fitDepth = 0
    /\ fitted = <<>>
    /\ fitPc = "call"

RunFitCurve ==
    /\ fitPc = "call"
    /\ fitted' = fitCurve(fitPoints, FitError(fitErrHalves))
    /\ fitPc' = "done"
    /\ UNCHANGED <<fitPoints, fitErrHalves, fitDepth, otsuVars, hystVars, rdpVars, msVars, hostVars, extVars>>

\* The depths fitCubic is called at: by fitCurve, and by itself around the
\* depth its base case cuts the recursion at.
FitDepths == {0, DepthCap, DepthCap + 1}

\* A call of fitCubic at one of these depths on a polyline of two points or
\* more, with the tangents of its two ends.
FitCubicInit ==
    /\ fitPoints \in {pts \in FitPolylines : Len(pts) >= 2}
    /\ fitErrHalves \in FitErrHalvesSamples
    /\ fitDepth \in FitDepths
    /\ fitted = <<>>
    /\ fitPc = "cubic"

RunFitCubic ==
    /\ fitPc = "cubic"
    /\ fitted' = fitCubic(fitPoints,
                          normalize(sub(At(fitPoints, 1), At(fitPoints, 0))),
                          normalize(sub(At(fitPoints, Len(fitPoints) - 2), LastOf(fitPoints))),
                          FitError(fitErrHalves), fitDepth)
    /\ fitPc' = "done"
    /\ UNCHANGED <<fitPoints, fitErrHalves, fitDepth, otsuVars, hystVars, rdpVars, msVars, hostVars, extVars>>

----------------------------------------------------------------------------
(* traceFromImage                                                          *)
(*                                                                         *)
(* The call is followed from the handler that made it: its two loads, the  *)
(* strategy its category selects, one fitContour per retained contour,     *)
(* and the handler's continuation.  What the image gives is an input: its  *)
(* category (analyzeImage of the preview), the paths its mask walks to     *)
(* (as marchingSquares collects them before its return) and, for a photo,  *)
(* its count of edge pixels.  Tolerances are held in tenths.               *)

\* Bound: the number of long paths the mask of an image walks to.
MaxTracePaths == 6

\* resolution ?? (photo: 640, illustration: 512, otherwise 512)
TraceRes(kind) == IF kind = "photo" THEN 640 ELSE 512

RECURSIVE Gcd(_, _)
Gcd(a, b) == IF b = 0 THEN a ELSE Gcd(b, a % b)

\* scale = 1024 / traceRes.  A contour point <<2x, 2y>> scaled is
\* <<2x * ScaleMult, 2y * ScaleMult>> in units of 1 / ScaleGrain.
ScaleGrain(traceRes) == traceRes \div Gcd(512, traceRes)
ScaleMult(traceRes) == 512 \div Gcd(512, traceRes)

\* Math.round(a / b) for a >= 0, b > 0
RoundDiv(a, b) == (2 * a + b) \div (2 * b)

\* The least integer length that is >= hundredths / 100.
LengthAtLeast(hundredths) == (hundredths + 99) \div 100

\* traceMask: Math.max(20, traceRes * 0.04)
MaskMinLen(traceRes) == LengthAtLeast(Max(2000, traceRes * 4))

\* traceEdges: Math.max(15, traceRes * 0.03)
EdgeMinLen(traceRes) == LengthAtLeast(Max(1500, traceRes * 3))

\* traceEdges: Math.min(30, Math.max(5, Math.round(edgeCount / (traceRes * 2))))
EdgeMaxContours(count, traceRes) == Min(30, Max(5, RoundDiv(count, traceRes * 2)))

\* traceEdges: Math.max(errorTolerance, errorTolerance * 1.2), in tenths
PhotoTolerance10(tol10) == Max(tol10, (tol10 * 12) \div 10)

\* traceFromImage: the maxContours it passes to traceMask
MaskMaxContours(kind) ==
    IF kind = "alpha" THEN 1 ELSE IF kind = "logo" THEN 3 ELSE 5

\* fitContour: errorTolerance * 0.5, in tenths
Epsilon10(tol10) == (tol10 * 5) \div 10

\* toSegments(ctrls)
toSegments(ctrls) ==
    [i \in 1..Len(ctrls) |->
        [p0 |-> ctrls[i].ctrl[1], c1 |-> ctrls[i].ctrl[2],
         c2 |-> ctrls[i].ctrl[3], p3 |-> ctrls[i].ctrl[4]]]

\* fitContour, after the scaling: simplified is rdp's result in units of
\* 1 / grain; the fitter gets it in units of 1 / Scale.
FitSimplified(simple, grain, tol10) ==
    IF Len(simple) < 2 THEN <<>>
    ELSE toSegments(
            fitCurve([i \in 1..Len(simple) |->
                        <<(simple[i][1] * Scale) \div grain,
                          (simple[i][2] * Scale) \div grain>>],
                     (tol10 * Scale) \div 10))

\* fitContour(contour, scale, errorTolerance); epsilon is given to rdp in
\* halves of 1 / grain.
fitContour(cont, traceRes, tol10) ==
    FitSimplified(
        rdp([i \in 1..Len(cont) |->
                <<cont[i][1] * ScaleMult(traceRes), cont[i][2] * ScaleMult(traceRes)>>],
            (Epsilon10(tol10) * 2 * ScaleGrain(traceRes)) \div 10),
        ScaleGrain(traceRes), tol10)

\* (Strokes of one segment dropped with the empty ones: used to test C11.)
KeepStrokeLong(stroke) == IF Len(stroke) > 1 THEN <<stroke>> ELSE <<>>

\* [stroke].filter((s) => s.length > 0), and "if (stroke.length > 0) push"
KeepStroke(stroke) == IF Len(stroke) > 0 THEN <<stroke>> ELSE <<>>

\* The paths of an image: along a straight boundary, or around a corner.
RunPath(n) == [i \in 1..n |-> <<2 * (i - 1), 1>>]
CornerPath(n) ==
    LET k == n \div 2 + 1
    IN  [i \in 1..n |-> IF i <= k THEN <<2 * (i - 1), 1>>
                        ELSE <<2 * k - 1, 2 * (i - k)>>]

ShortPathLengths == {<<>>, <<7>>, <<8, 20>>}
LongPathLengths(k) == [i \in 1..k |-> 20 + i]

TracePathSets ==
    {[i \in 1..Len(lens) |-> IF bent /\ i = Len(lens) THEN CornerPath(lens[i])
                             ELSE RunPath(lens[i])] :
        lens \in {s \o LongPathLengths(k) : s \in ShortPathLengths, k \in 0..MaxTracePaths},
        bent \in BOOLEAN}

EdgeCountSamples == {0, 1000, 12800, 409600}
ImageKinds == {"alpha", "logo", "illustration", "photo"}

TraceIdle ==
    /\ trKind = "" /\ trTolerance = 0 /\ trFails = "" /\ trPaths = <<>>
    /\ trEdgeCount = 0 /\ trCanny = FALSE /\ trContours = <<>> /\ trTol10 = 0
    /\ trIdx = 0 /\ trCalls = <<>> /\ trStrokes = <<>> /\ trPc = "idle"


\* marchingSquares' default minLength (traceMask passes none)
DefaultMinLength == 8

\* The handler that made the call, up to its await: handleRetrace from the
\* editor showing the loaded project, or startProjectFromImage from the
\* drop zone.
TraceHostInit ==
    /\ isTracing = TRUE
    /\ smoothStates = <<>>
    /\ imageWarnings = 0
    /\ showActionsMenu = FALSE
    /\ isCmdPaletteOpen = FALSE
    /\ \/ /\ traceError = trTolerance
          /\ bezierData = Some([strokes |-> DemoStrokes])
          /\ anchorsData = Some("loaded")
          /\ historyRef = <<Stringify([strokes |-> DemoStrokes])>>
          /\ historyIndexRef = 0
          /\ showDropZone = FALSE
          /\ traces = <<[kind |-> "retrace", tolerance |-> trTolerance, state |-> "pending"]>>
          /\ EditSettled(FALSE)
       \/ /\ traceError = DefaultTraceError
          /\ bezierData = Null
          /\ anchorsData = Null
          /\ historyRef = <<>>
          /\ historyIndexRef = -1
          /\ showDropZone = TRUE
          /\ traces = <<[kind |-> "project", tolerance |-> trTolerance, state |-> "pending"]>>
          /\ EditSettled(TRUE)

\* The image traced.  A photo without edge pixels has no path; the corner
\* paths are traced at the resolution whose scale is a whole number.
TraceInit ==
    /\ trKind \in ImageKinds
    /\ trTolerance \in TraceErrorSamples
    /\ trFails \in {"none", "preview", "trace"}
    /\ trPaths \in TracePathSets
    /\ trEdgeCount \in EdgeCountSamples
    /\ trKind # "photo" => trEdgeCount = 0
    /\ trKind = "photo" =>
         /\ \A i \in 1..Len(trPaths) : trPaths[i] = RunPath(Len(trPaths[i]))
         /\ trEdgeCount = 0 => trPaths = <<>>
    /\ trCanny = FALSE /\ trContours = <<>> /\ trTol10 = 0
    /\ trIdx = 0 /\ trCalls = <<>> /\ trStrokes = <<>>
    /\ trPc = "preview"

notTrace == <<otsuVars, hystVars, rdpVars, msVars, hostVars, fitVars, imageVars, editVars>>

\* await loadImageData(src, 256) and analyzeImage(previewData)
TracePreview ==
    /\ trPc = "preview"
    /\ trPc' = IF trFails = "preview" THEN "rejected" ELSE "load"
    /\ UNCHANGED <<trImage, trRun, notTrace>>

\* (The load taken to succeed whatever the image: used to test C15.)
TraceLoadUnchecked ==
    /\ trPc = "load"
    /\ trPc' = "strategy"
    /\ UNCHANGED <<trImage, trRun, notTrace>>

\* await loadImageData(src, traceRes)
TraceLoad ==
    /\ trPc = "load"
    /\ trPc' = IF trFails = "trace" THEN "rejected" ELSE "strategy"
    /\ UNCHANGED <<trImage, trRun, notTrace>>

\* One call of fitContour, as the log keeps it.
FitCall(tol10, stroke) ==
    [epsilon10 |-> Epsilon10(tol10), tolerance10 |-> tol10, segments |-> Len(stroke)]

\* The single contour of traceMask, fitted.
SingleFitted(cont, stroke) ==
    /\ trStrokes' = KeepStroke(stroke)
    /\ trCalls' = <<FitCall(trTolerance * 10, stroke)>>
    /\ trContours' = <<cont>>

\* traceMask with maxContours <= 1
TraceMaskSingleOf(cont) ==
    IF Len(cont) = 0
    THEN UNCHANGED <<trStrokes, trCalls, trContours>>
    ELSE SingleFitted(cont, fitContour(cont, TraceRes(trKind), trTolerance * 10))

TraceMaskSingle ==
    /\ trPc = "strategy"
    /\ trKind # "photo"
    /\ MaskMaxContours(trKind) <= 1
    /\ TraceMaskSingleOf(marchingSquaresResult(trPaths, 1, DefaultMinLength))
    /\ trPc' = "resolved"
    /\ UNCHANGED <<trImage, trCanny, trTol10, trIdx, notTrace>>

\* traceMask with maxContours > 1, up to its loop
TraceMaskMulti ==
    /\ trPc = "strategy"
    /\ trKind # "photo"
    /\ MaskMaxContours(trKind) > 1
    /\ trContours' = marchingSquaresMultiResult(trPaths, MaskMaxContours(trKind),
                                                MaskMinLen(TraceRes(trKind)))
    /\ trTol10' = trTolerance * 10
    /\ trIdx' = 1
    /\ trPc' = "fit"
    /\ UNCHANGED <<trImage, trCanny, trCalls, trStrokes, notTrace>>

\* traceEdges, up to its loop
TraceEdges ==
    /\ trPc = "strategy"
    /\ trKind = "photo"
    /\ trCanny' = TRUE
    /\ IF trEdgeCount = 0
       THEN /\ trPc' = "resolved"
            /\ UNCHANGED <<trContours, trTol10, trIdx>>
       ELSE /\ trContours' =
                 marchingSquaresMultiResult(trPaths,
                     EdgeMaxContours(trEdgeCount, TraceRes(trKind)),
                     EdgeMinLen(TraceRes(trKind)))
            /\ trTol10' = PhotoTolerance10(trTolerance * 10)
            /\ trIdx' = 1
            /\ trPc' = "fit"
    /\ UNCHANGED <<trImage, trCalls, trStrokes, notTrace>>

\* One turn of "for (const contour of contours)"
TraceFitOf(stroke) ==
    /\ trStrokes' = trStrokes \o KeepStroke(stroke)
    /\ trCalls' = Append(trCalls, FitCall(trTol10, stroke))

TraceFit ==
    /\ trPc = "fit"
    /\ trIdx <= Len(trContours)
    /\ TraceFitOf(fitContour(trContours[trIdx], TraceRes(trKind), trTol10))
    /\ trIdx' = trIdx + 1
    /\ UNCHANGED <<trImage, trCanny, trContours, trTol10, trPc, notTrace>>

\* return strokes
TraceReturn ==
    /\ trPc = "fit"
    /\ trIdx > Len(trContours)
    /\ trPc' = "resolved"
    /\ UNCHANGED <<trImage, trRun, notTrace>>

\* The handler after its await, the call having resolved with the strokes.
HandlerResolves ==
    /\ trPc = "resolved"
    /\ traces[1].state = "pending"
    /\ IF traces[1].kind = "retrace"
       THEN RetraceResolves(1, trStrokes)
       ELSE ProjectResolves(1, trStrokes)

\* The handler's catch and finally, the call having rejected.
HandlerRejects ==
    /\ trPc = "rejected"
    /\ TraceRejects

----------------------------------------------------------------------------
(* analyzeImage and imageToMask                                            *)
(*                                                                         *)
(* A raster is its width, its height and its pixels <<r, g, b, a>> in row  *)
(* order (data[i * 4 .. i * 4 + 3]).  Luminance is held in thousandths     *)
(* (299 r + 587 g + 114 b), logarithms in millionths.  The contrast ratio  *)
(* of the analysis feeds nothing else and is left out.                     *)

\* Bound: the number of pixels of a raster.
MaxImgArea == 12

\* The pixels the rasters are drawn from: opaque, transparent (a < 10) and
\* in between, on either side of the foreground test a > 128.
PixelSamples ==
    {<<0, 0, 0, 255>>, <<128, 128, 128, 255>>, <<0, 0, 255, 255>>,
     <<0, 0, 0, 0>>, <<128, 128, 128, 9>>, <<0, 0, 0, 10>>,
     <<0, 0, 0, 128>>, <<128, 128, 128, 129>>}

\* The sizes of the rasters.
ImageSizes ==
    {s \in (1..MaxImgArea) \X (1..MaxImgArea) : s[1] * s[2] <= MaxImgArea}

\* The rasters of two pixel values, the first k pixels of the one and the
\* rest of the other.
SplitImagesOf(w, h) ==
    {[width |-> w, height |-> h,
      data |-> [i \in 1..(w * h) |-> IF i <= k THEN q ELSE p]] :
        k \in 0..(w * h - 1), p \in PixelSamples, q \in PixelSamples}

SplitImages == UNION {SplitImagesOf(s[1], s[2]) : s \in ImageSizes}

\* The 5 x 4 rasters of opaque greys that rise by step from pixel to pixel.
RampImages ==
    {[width |-> 5, height |-> 4,
      data |-> [i \in 1..20 |-> <<(i - 1) * step, (i - 1) * step, (i - 1) * step, 255>>]] :
        step \in {1, 2, 4}}

\* data[i * 4 + 3] < 10, counted
TransparentCount(img) ==
    Cardinality({i \in 1..Len(img.data) : img.data[i][4] < 10})

\* transparentCount > n * 0.1
UsesAlpha(img) == 10 * TransparentCount(img) > img.width * img.height

\* 0.299 r + 0.587 g + 0.114 b, in thousandths
Lum1000(px) == 299 * px[1] + 587 * px[2] + 114 * px[3]

\* Math.round of a luminance
LumRounded(px) == (Lum1000(px) + 500) \div 1000

\* Math.log2(k) in millionths, for the counts 1..32
Log2Micro ==
    <<0, 1000000, 1584963, 2000000, 2321928, 2584963, 2807355, 3000000,
      3169925, 3321928, 3459432, 3584963, 3700440, 3807355, 3906891, 4000000,
      4087463, 4169925, 4247928, 4321928, 4392317, 4459432, 4523562, 4584963,
      4643856, 4700440, 4754888, 4807355, 4857981, 4906891, 4954196, 5000000>>

\* hist[Math.min(63, Math.floor(gray[i] / 4))]++
EntropyBin(px) == Min(63, Lum1000(px) \div 4000)
EntropyHist(img) ==
    [b \in 0..63 |-> Cardinality({i \in 1..Len(img.data) : EntropyBin(img.data[i]) = b})]

\* n * entropy in millionths: the sum over the bins of
\* -hist[b] * log2(hist[b] / n)
RECURSIVE EntropySum(_, _, _)
EntropySum(hist, n, b) ==
    IF b > 63 THEN 0
    ELSE (IF hist[b] > 0 THEN hist[b] * (Log2Micro[n] - Log2Micro[hist[b]]) ELSE 0)
         + EntropySum(hist, n, b + 1)

\* colorEntropy < percent / 100, with colorEntropy = entropy / log2(64)
EntropyBelow(img, percent) ==
    EntropySum(EntropyHist(img), Len(img.data), 0) < percent * 6 * Len(img.data) * 10000

\* colorBuckets.size
uniqueColors(img) ==
    Cardinality({<<img.data[i][1] \div 64, img.data[i][2] \div 64, img.data[i][3] \div 64>> :
                    i \in 1..Len(img.data)})

\* gray[y * width + x], in thousandths
GrayAt(img, x, y) == Lum1000(img.data[y * img.width + x + 1])

\* Math.hypot(dx, dy) > 20, for dx and dy in thousandths
HypotAbove20(dx, dy) ==
    \/ Abs(dx) > 20000
    \/ Abs(dy) > 20000
    \/ dx * dx + dy * dy > 400000000

\* The pixels the edge estimate visits: y = 1, 3, ... < height - 1 and
\* x = 1, 3, ... < width - 1.
SampledAt(img) ==
    {<<x, y>> \in (1..(img.width - 2)) \X (1..(img.height - 2)) : x % 2 = 1 /\ y % 2 = 1}

\* edgePixels
edgePixels(img) ==
    Cardinality({s \in SampledAt(img) :
        HypotAbove20(GrayAt(img, s[1] + 1, s[2]) - GrayAt(img, s[1] - 1, s[2]),
                     GrayAt(img, s[1], s[2] + 1) - GrayAt(img, s[1], s[2] - 1))})

\* Math.ceil(a / 2) for a >= -1 (Math.ceil(-0.5) is -0)
CeilHalf(a) == (a + 1) \div 2

\* sampledPixels
sampledPixels(img) == CeilHalf(img.height - 2) * CeilHalf(img.width - 2)

\* edgeDensity = edgePixels / sampledPixels, kept as the two numbers: with
\* den = 0 the quotient is NaN (0 / 0).
edgeDensity(img) == [num |-> edgePixels(img), den |-> sampledPixels(img)]

\* density < percent / 100 and density > percent / 100; false of NaN
DensityBelow(d, percent) == d.den > 0 /\ 100 * d.num < percent * d.den
DensityAbove(d, percent) == d.den > 0 /\ 100 * d.num > percent * d.den

\* The classification
KindOf(img, density) ==
    IF UsesAlpha(img) THEN "alpha"
    ELSE IF uniqueColors(img) <= 12 /\ EntropyBelow(img, 55) THEN "logo"
    ELSE IF EntropyBelow(img, 70) \/ (uniqueColors(img) <= 24 /\ DensityBelow(density, 15))
         THEN "illustration"
    ELSE "photo"

\* The Canny parameters recommended for a kind, in hundredths
CannyFor(kind, density) ==
    IF kind \in {"alpha", "logo"} THEN [sigma |-> 80, low |-> 3, high |-> 10]
    ELSE IF kind = "illustration" THEN [sigma |-> 120, low |-> 4, high |-> 12]
    ELSE [sigma |-> 180 + (IF DensityAbove(density, 25) THEN 50 ELSE 0),
          low |-> 6, high |-> 18]

AnalysisOf(img, density, kind) ==
    [kind |-> kind, hasAlpha |-> UsesAlpha(img), uniqueColors |-> uniqueColors(img),
     edgeDensity |-> density, canny |-> CannyFor(kind, density)]

analyzeImage(img) ==
    AnalysisOf(img, edgeDensity(img), KindOf(img, edgeDensity(img)))

\* data[i * 4 + 3] > 245 would count the opaque pixels (logged only);
\* (the foreground test with that bound: used to test C16.)
AlphaForegroundOpaque(a) == a > 245

\* data[i * 4 + 3] > 128
AlphaForeground(a) == a > 128

\* gray[i] = Math.round(0.299 r + 0.587 g + 0.114 b)
GrayOf(img) == [i \in 1..Len(img.data) |-> LumRounded(img.data[i])]

\* gray.map((v) => v < threshold)
MaskBelow(g, t) == [i \in 1..Len(g) |-> g[i] < t]

imageToMask(img) ==
    IF UsesAlpha(img)
    THEN [i \in 1..Len(img.data) |-> AlphaForeground(img.data[i][4])]
    ELSE MaskBelow(GrayOf(img), otsuThreshold(GrayOf(img)))

ImageIdle ==
    /\ imageData = <<>> /\ analysis = <<>> /\ maskOut = <<>> /\ imagePc = "idle"

ImageInit ==
    /\ imageData \in SplitImages \cup RampImages
    /\ analysis = <<>>
    /\ maskOut = <<>>
    /\ imagePc = "loaded"

notImage == <<otsuVars, hystVars, rdpVars, msVars, hostVars, fitVars, trVars, editVars>>

\* analysis = analyzeImage(imageData)
RunAnalyzeImage ==
    /\ imagePc = "loaded"
    /\ analysis' = analyzeImage(imageData)
    /\ imagePc' = "analyzed"
    /\ UNCHANGED <<imageData, maskOut, notImage>>

\* mask = imageToMask(imageData)
RunImageToMask ==
    /\ imagePc = "loaded"
    /\ maskOut' = imageToMask(imageData)
    /\ imagePc' = "masked"
    /\ UNCHANGED <<imageData, analysis, notImage>>

ExtIdle == TraceIdle /\ ImageIdle

----------------------------------------------------------------------------
(* Specifications                                                          *)

SpecOtsuInit == OtsuInit /\ HystIdle /\ RdpIdle /\ MsIdle /\ HostIdle /\ FitIdle /\ ExtIdle
SpecOtsuNext == RunOtsu
SpecOtsu == SpecOtsuInit /\ [][SpecOtsuNext]_vars

SpecHystInit == HystInit /\ OtsuIdle /\ RdpIdle /\ MsIdle /\ HostIdle /\ FitIdle /\ ExtIdle
SpecHystNext == HystClassify \/ HystPop \/ HystReturn
SpecHyst == SpecHystInit /\ [][SpecHystNext]_vars

SpecRdpInit == RdpInit /\ OtsuIdle /\ HystIdle /\ MsIdle /\ HostIdle /\ FitIdle /\ ExtIdle
SpecRdpNext == RunRdp \/ RunRdpAgain
SpecRdp == SpecRdpInit /\ [][SpecRdpNext]_vars

SpecMsInit == MsInit /\ OtsuIdle /\ HystIdle /\ RdpIdle /\ HostIdle /\ FitIdle /\ ExtIdle
SpecMsNext ==
    \/ MsScan \/ MsForSkip \/ MsForStart
    \/ MsWalkClose \/ MsWalkStop \/ MsWalkAdvance
    \/ MsReturnSingle \/ MsReturnMulti
SpecMs == SpecMsInit /\ [][SpecMsNext]_vars

SpecHostInit == HostInit /\ OtsuIdle /\ HystIdle /\ RdpIdle /\ MsIdle /\ FitIdle /\ ExtIdle
SpecHostNext ==
    \/ SetTraceError \/ ToggleSmooth \/ ToggleActionsMenu \/ ToggleCommandPalette
    \/ RetraceFromMenu \/ RetraceFromPalette \/ ExtractShapes
    \/ TraceResolves \/ TraceRejects
SpecHost == SpecHostInit /\ [][SpecHostNext]_vars

SpecFitInit == FitInit /\ OtsuIdle /\ HystIdle /\ RdpIdle /\ MsIdle /\ HostIdle /\ ExtIdle
SpecFitNext == RunFitCurve
SpecFit == SpecFitInit /\ [][SpecFitNext]_vars

SpecCubicInit == FitCubicInit /\ OtsuIdle /\ HystIdle /\ RdpIdle /\ MsIdle /\ HostIdle /\ ExtIdle
SpecCubicNext == RunFitCubic
SpecCubic == SpecCubicInit /\ [][SpecCubicNext]_vars

SpecImageInit ==
    /\ ImageInit /\ TraceIdle
    /\ OtsuIdle /\ HystIdle /\ RdpIdle /\ MsIdle /\ HostIdle /\ FitIdle
SpecImageNext == RunAnalyzeImage \/ RunImageToMask
SpecImage == SpecImageInit /\ [][SpecImageNext]_vars

\* The tracer, the simplifier and the fitter, one of them called.
SpecSmallInit ==
    /\ \/ MsInitSmall /\ RdpIdle /\ FitIdle
       \/ MsIdle /\ RdpInitShort /\ FitIdle
       \/ MsIdle /\ RdpIdle /\ FitInitShort
    /\ OtsuIdle /\ HystIdle /\ HostIdle /\ ExtIdle
SpecSmallNext == SpecMsNext \/ SpecRdpNext \/ SpecFitNext
SpecSmall == SpecSmallInit /\ [][SpecSmallNext]_vars

SpecTraceInit ==
    /\ TraceInit /\ TraceHostInit
    /\ OtsuIdle /\ HystIdle /\ RdpIdle /\ MsIdle /\ FitIdle /\ ImageIdle
SpecTraceNext ==
    \/ TracePreview \/ TraceLoad
    \/ TraceMaskSingle \/ TraceMaskMulti \/ TraceEdges
    \/ TraceFit \/ TraceReturn
    \/ HandlerResolves \/ HandlerRejects
SpecTrace == SpecTraceInit /\ [][SpecTraceNext]_vars

\* The editor page from its mount, or late in a session, with time passing.
SpecEditInit ==
    /\ EditMount \/ EditLate
    /\ OtsuIdle /\ HystIdle /\ RdpIdle /\ MsIdle /\ FitIdle /\ ExtIdle
SpecEditNext ==
    \/ LoadResolves \/ LoadRejects
    \/ EditCurves \/ ToggleSmooth \/ Undo \/ Redo
    \/ ToggleActionsMenu \/ NewProject
    \/ PushTimerFires \/ AutoSaveFires \/ Tick
SpecEdit == SpecEditInit /\ [][SpecEditNext]_vars

----------------------------------------------------------------------------
(* Claims about otsuThreshold (SpecOtsu)                                   *)

\* The bins the luminance list occupies.
OccupiedBins == {gray[k] : k \in 1..Len(gray)}

\* C1: for a luminance list whose histogram has exactly the two occupied
\* bins a < b, well separated (some bin lies between them), otsuThreshold
\* returns a threshold strictly between them: a < t < b.
C1_ThresholdStrictlyBetweenPeaks ==
    otsuPc = "done" =>
        \A a, b \in LumSamples :
            (a + 1 < b /\ OccupiedBins = {a, b}) => (a < threshold /\ threshold < b)

----------------------------------------------------------------------------
(* Claims about hysteresis (SpecHyst)                                      *)

\* Pixels i and j touch, by a side or a corner.
Adjacent(i, j) ==
    /\ i # j
    /\ Abs((i % HystW) - (j % HystW)) <= 1
    /\ Abs((i \div HystW) - (j \div HystW)) <= 1

\* The pixels reached from S through pixels of value >= low.
RECURSIVE LowClosure(_)
LowClosure(S) ==
    LET T == S \cup {j \in Pixels : /\ AtLeast(nms, j, lowRatio)
                                    /\ \E i \in S : Adjacent(i, j)}
    IN  IF T = S THEN S ELSE LowClosure(T)

\* Pixels of value >= high (and >= low), the seeds of the claim.
StrongSeeds == {i \in Pixels : AtLeast(nms, i, highRatio) /\ AtLeast(nms, i, lowRatio)}

\* What each turn of the traversal loop decreases.
HystMeasure == 2 * Cardinality({i \in Pixels : strong[i] = 1}) + Len(queue)

\* C2: when the suppressed magnitude is zero at every pixel, the edge mask
\* hysteresis returns has no true pixel.
C2_ZeroMagnitudeGivesEmptyMask ==
    (hystPc = "done" /\ \A i \in Pixels : nms[i] = 0) =>
        \A i \in Pixels : ~edges[i]

\* C8: the edge mask is exactly the low-threshold connected closure of the
\* strong seeds (a pixel is true iff its value is >= low and an 8-connected
\* chain of pixels >= low joins it to a pixel >= high), no pixel below low
\* is ever marked strong, and every turn of the traversal loop decreases
\* HystMeasure, so the traversal terminates.
C8_MaskIsLowClosureOfSeeds ==
    /\ [](\A i \in Pixels : (hystPc # "idle" /\ strong[i] = 2) => AtLeast(nms, i, lowRatio))
    /\ [](hystPc = "done" =>
            LET linked == LowClosure(StrongSeeds)
            IN  \A i \in Pixels : edges[i] <=> i \in linked)
    /\ [][HystPop => HystMeasure' < HystMeasure]_vars

\* C8's case: the traversal has ended, having promoted a weak pixel through
\* a diagonal link and left another weak pixel, linked to no seed, out.
C8_Witness ==
    /\ hystPc = "done"
    /\ \E i, j \in Pixels :
        /\ edges[i] /\ ~AtLeast(nms, i, highRatio)
        /\ edges[j] /\ AtLeast(nms, j, highRatio) /\ Adjacent(i, j)
        /\ (i % HystW) # (j % HystW) /\ (i \div HystW) # (j \div HystW)
    /\ \E i \in Pixels : ~edges[i] /\ AtLeast(nms, i, lowRatio)

----------------------------------------------------------------------------
(* Claims about rdp (SpecRdp)                                              *)

\* The polyline with every point tagged by its position, <<x, y, i>>; rdp
\* reads the coordinates only, so its result on the tagged polyline tells
\* which input points it keeps.
Tagged(pts) == [i \in 1..Len(pts) |-> <<pts[i][1], pts[i][2], i>>]
Untagged(pts) == [i \in 1..Len(pts) |-> <<pts[i][1], pts[i][2]>>]
KeptPositions == LET out == rdp(Tagged(points), epsHalves)
                 IN  {out[k][3] : k \in 1..Len(out)}

\* C5: rdp is idempotent: rdp(rdp(points, epsilon), epsilon) is the same
\* point sequence as rdp(points, epsilon).
C5_RdpIdempotent ==
    rdpPc = "twice" => resimplified = simplified

\* C5's case: rdp has run twice on a polyline that the first run split and
\* from which it removed a point.
C5_Witness ==
    /\ rdpPc = "twice"
    /\ Len(simplified) >= 3
    /\ Len(simplified) < Len(points)

\* C6: every input point that rdp removes lies within point-to-segment
\* distance epsilon of the output segment that joins the nearest kept points
\* before and after it in the input.
C6_RemovedPointsWithinEpsilon ==
    rdpPc \in {"once", "twice"} =>
        LET kept == KeptPositions
        IN  /\ Untagged(rdp(Tagged(points), epsHalves)) = simplified
            /\ \A i \in (1..Len(points)) \ kept :
                 LET j == CHOOSE a \in kept : a < i /\ \A b \in kept : b < i => b <= a
                     k == CHOOSE a \in kept : a > i /\ \A b \in kept : b > i => a <= b
                 IN  ~ExceedsEps(distPointLine(points[i], points[j], points[k]), epsHalves)

\* C6's case: rdp has split the polyline and has removed a point that does
\* not lie on the output segment it is measured against.
C6_Witness ==
    /\ rdpPc = "once"
    /\ Len(simplified) >= 3
    /\ \E i \in (1..Len(points)) \ KeptPositions :
         LET j == CHOOSE a \in KeptPositions : a < i /\ \A b \in KeptPositions : b < i => b <= a
             k == CHOOSE a \in KeptPositions : a > i /\ \A b \in KeptPositions : b > i => a <= b
         IN  distPointLine(points[i], points[j], points[k]).num > 0

----------------------------------------------------------------------------
(* Claims about marchingSquares and marchingSquaresMulti                   *)

\* The columns and rows of the mask's foreground pixels.
OnXs == {i % width : i \in {j \in DOMAIN mask : mask[j]}}
OnYs == {i \div width : i \in {j \in DOMAIN mask : mask[j]}}
MinOf(S) == CHOOSE a \in S : \A b \in S : a <= b
MaxOf(S) == CHOOSE a \in S : \A b \in S : a >= b

\* The contour marchingSquares returned is one closed path whose bounding
\* box is within half a cell of the foreground's outermost columns and rows
\* (a point is held as <<2x, 2y>>, so half a cell is 1).
ClosedWithinHalfCell ==
    /\ contour # <<>>
    /\ contour[1] = contour[Len(contour)]
    /\ LET xs == {contour[i][1] : i \in 1..Len(contour)}
           ys == {contour[i][2] : i \in 1..Len(contour)}
       IN  /\ Abs(MinOf(xs) - 2 * MinOf(OnXs)) <= 1
           /\ Abs(MaxOf(xs) - 2 * MaxOf(OnXs)) <= 1
           /\ Abs(MinOf(ys) - 2 * MinOf(OnYs)) <= 1
           /\ Abs(MaxOf(ys) - 2 * MaxOf(OnYs)) <= 1

\* The mask is one of the square masks and marchingSquares has returned.
SquareTraced == msPc = "single" /\ width = FieldSide

\* The square leaves at least one background column and row on every side.
SquareOffBorder ==
    /\ MinOf(OnXs) >= 1 /\ MaxOf(OnXs) <= width - 2
    /\ MinOf(OnYs) >= 1 /\ MaxOf(OnYs) <= height - 2

C10_ReturnedPathsLongEnough ==
    /\ msPc = "multi" =>
         /\ Len(contours) <= maxContours
         /\ \A i \in 1..Len(contours) : Len(contours[i]) >= minLength
         /\ \A i, j \in 1..Len(contours) : i < j => Len(contours[i]) >= Len(contours[j])
    /\ msPc = "single" => (contour = <<>> \/ Len(contour) >= minLength)

\* C10 witness: marchingSquaresMulti has returned maxContours paths of
\* different lengths, the walk having found more paths than that, one of
\* them shorter than minLength and one found before a longer one.
C10_Witness ==
    /\ msPc = "multi"
    /\ Len(contours) = maxContours
    /\ Len(contours) >= 2
    /\ Len(contours[1]) > Len(contours[2])
    /\ Len(paths) > maxContours
    /\ \E i \in 1..Len(paths) : Len(paths[i]) < minLength
    /\ \E i, j \in 1..Len(paths) : i < j /\ Len(paths[i]) < Len(paths[j])

----------------------------------------------------------------------------
(* Claims about the editor page                                            *)

\* C9: when a trace is started before an earlier one has settled, the
\* earlier one's result is discarded: once every call has settled, in
\* whichever order, and the most recently started call resolved with
\* curves, the editor's curve data is that call's result.
C9_SupersededTraceDiscarded ==
    (/\ Len(traces) >= 2
     /\ \A i \in 1..Len(traces) : traces[i].state # "pending"
     /\ traces[Len(traces)].state = "curves")
    => bezierData = Some([strokes |-> Curves(traces[Len(traces)].tolerance)])

----------------------------------------------------------------------------
(* Claims about fitCurve                                                   *)

\* C3: in the output of fitCurve consecutive segments chain: segment i's p3
\* is the same point as segment i+1's p0.
C3_SegmentsChain ==
    fitPc = "done" =>
        \A i \in 1..(Len(fitted) - 1) : fitted[i].ctrl[4] = fitted[i + 1].ctrl[1]

\* C3 witness: fitCurve has returned three or more segments, the polyline
\* having been split more than once, not all of them from the base case.
C3_Witness ==
    /\ fitPc = "done"
    /\ Len(fitted) >= 3
    /\ \E i \in 1..Len(fitted) : fitted[i].how # "base"
    /\ \E i \in 1..Len(fitted) : fitted[i].how = "base"

\* The parameters a segment is sampled at: those it was accepted with, and
\* the two ends for a segment over two points.
SampleParams(seg) == IF seg.how = "base" THEN <<0, Scale>> ELSE seg.u

\* The squared distance of the curve at the i-th parameter from the i-th
\* point of the sub-polyline is below the squared bound.
SampleWithin(seg, i, bound) ==
    LET q == bezierQ(seg.ctrl, SampleParams(seg)[i])
        dx == q[1] - seg.src[i][1]
        dy == q[2] - seg.src[i][2]
    IN  /\ Abs(dx) < bound /\ Abs(dy) < bound
        /\ dx * dx + dy * dy < bound * bound

\* C4: every segment fitCurve returns has its maximum sampled deviation from
\* its sub-polyline strictly below the error tolerance, or comes from the
\* base case of fitCubic reached at a depth above 50.
C4_DeviationBelowTolerance ==
    fitPc = "done" =>
        \A n \in 1..Len(fitted) :
            \/ fitted[n].how = "base" /\ fitted[n].depth > DepthCap
            \/ /\ fitted[n].how = "base" => Len(fitted[n].src) = 2
               /\ \A i \in 1..Len(fitted[n].src) :
                    SampleWithin(fitted[n], i, FitError(fitErrHalves))

\* C4 witness: fitCurve has returned a segment it accepted after
\* reparameterization, whose curve does not pass through every point of its
\* sub-polyline.
C4_Witness ==
    /\ fitPc = "done"
    /\ \E n \in 1..Len(fitted) :
         /\ fitted[n].how = "reparam"
         /\ \E i \in 1..Len(fitted[n].src) : ~SampleWithin(fitted[n], i, 1)

----------------------------------------------------------------------------
(* Claims about traceFromImage (SpecTrace)                                 *)

\* C11: every stroke of the result has at least one segment, and the
\* strokes are exactly the fitContour results that have segments: a contour
\* whose fit is empty contributes none, in each of the strategies.
C11_StrokesHaveSegments ==
    /\ \A i \in 1..Len(trStrokes) : Len(trStrokes[i]) >= 1
    /\ Len(trStrokes) = Cardinality({i \in 1..Len(trCalls) : trCalls[i].segments > 0})

\* C11 witness: the edge-based strategy has returned two strokes or more,
\* one of them of a single segment.
C11_Witness ==
    /\ trPc = "resolved" /\ trKind = "photo"
    /\ Len(trStrokes) >= 2
    /\ \E i \in 1..Len(trStrokes) : Len(trStrokes[i]) = 1

\* C12: the strokes never outnumber the category's cap (1 for alpha, 3 for
\* logo, 5 for illustration, min(30, max(5, round(edgeCount / (2 * traceRes))))
\* for photo, which lies in 5..30), and Canny runs for photos only.
C12_StrokesWithinCap ==
    LET photoCap == Min(30, Max(5, (2 * trEdgeCount + 1280) \div 2560))
    IN  /\ trCanny => trKind = "photo"
        /\ photoCap \in 5..30
        /\ trKind = "alpha" => Len(trStrokes) <= 1
        /\ trKind = "logo" => Len(trStrokes) <= 3
        /\ trKind = "illustration" => Len(trStrokes) <= 5
        /\ trKind = "photo" => Len(trStrokes) <= photoCap

\* C12 witness: a logo whose mask walks to more than three long paths has
\* been traced to exactly three strokes.
C12_Witness ==
    /\ trPc = "resolved" /\ trKind = "logo"
    /\ Len(trStrokes) = 3
    /\ Cardinality({i \in 1..Len(trPaths) : Len(trPaths[i]) >= 21}) > 3

\* C13: every fitContour call, in every strategy, runs the RDP pre-pass with
\* epsilon = 0.5 x the errorTolerance given to traceFromImage.
C13_PrePassEpsilonIsHalfTolerance ==
    \A i \in 1..Len(trCalls) : trCalls[i].epsilon10 = 5 * trTolerance

\* C15: when the preview load or the trace-resolution load fails, the call
\* rejects: no later stage has run, there is no stroke, and the handler
\* leaves the curve data as it was when it made the call.
C15_DecodeFailureRejects ==
    /\ trFails = "preview" => trPc \in {"preview", "rejected"}
    /\ trFails = "trace" => trPc \in {"preview", "load", "rejected"}
    /\ trPc = "rejected" =>
         /\ trStrokes = <<>> /\ trCalls = <<>> /\ trContours = <<>> /\ ~trCanny
         /\ bezierData = IF traces[1].kind = "retrace"
                         THEN Some([strokes |-> DemoStrokes]) ELSE Null

\* C15 witness: the trace-resolution load has failed and the handler's catch
\* has run.
C15_Witness ==
    /\ trFails = "trace" /\ trPc = "rejected"
    /\ traces[1].state = "rejected"

----------------------------------------------------------------------------
(* Claims about degenerate inputs (SpecSmall)                              *)

\* The mask has no foreground pixel.
AllBackground == \A i \in DOMAIN mask : ~mask[i]

\* C14: degenerate inputs give empty or unchanged results: the tracer
\* returns [] for a mask without foreground, fitCurve returns [] for fewer
\* than 2 points, and rdp returns a polyline of fewer than 3 points as it is.
C14_DegenerateInputs ==
    /\ (msPc = "single" /\ AllBackground) => contour = <<>>
    /\ (msPc = "multi" /\ AllBackground) => contours = <<>>
    /\ (fitPc = "done" /\ Len(fitPoints) < 2) => fitted = <<>>
    /\ (rdpPc \in {"once", "twice"} /\ Len(points) < 3) => simplified = points

\* C14 witness: rdp has returned for a polyline of a single point.
C14_Witness == rdpPc = "once" /\ Len(points) = 1

----------------------------------------------------------------------------
(* Claims about analyzeImage and imageToMask (SpecImage)                   *)

\* The rounded luminances of the raster.
Luminances == {LumRounded(imageData.data[i]) : i \in 1..Len(imageData.data)}

\* Transparent pixels (alpha < 10) are more than 10% of the raster.
MostlyTransparent ==
    10 * Cardinality({i \in 1..Len(imageData.data) : imageData.data[i][4] < 10})
        > imageData.width * imageData.height

\* C16: for a raster whose transparent pixels exceed 10% of all pixels, the
\* mask marks pixel i foreground exactly if alpha(i) > 128, whatever its RGB.
C16_AlphaMaskIsAlphaTest ==
    (imagePc = "masked" /\ MostlyTransparent) =>
        \A i \in 1..Len(imageData.data) : maskOut[i] <=> imageData.data[i][4] > 128

\* C16 witness: such a raster has been masked, with a foreground pixel that
\* is not fully opaque and a background pixel.
C16_Witness ==
    /\ imagePc = "masked" /\ MostlyTransparent
    /\ \E i \in 1..Len(maskOut) : maskOut[i] /\ imageData.data[i][4] < 245
    /\ \E i \in 1..Len(maskOut) : ~maskOut[i]

\* C17: for every non-empty raster the analysis has one of the four kinds
\* and an edge density that is a number in 0..1, the count of edge pixels
\* divided by the count of sampled pixels, also for widths and heights of
\* 1 and 2.
C17_AnalysisWellFormed ==
    imagePc = "analyzed" =>
        /\ analysis.kind \in {"alpha", "logo", "illustration", "photo"}
        /\ analysis.edgeDensity.den > 0
        /\ analysis.edgeDensity.num >= 0
        /\ analysis.edgeDensity.num <= analysis.edgeDensity.den

\* C20: for a raster without meaningful alpha and with exactly two
\* luminances d < l, the mask marks exactly the pixels of luminance d; it is
\* not empty.
C20_TwoToneMaskIsDarkShape ==
    (imagePc = "masked" /\ ~MostlyTransparent /\ Cardinality(Luminances) = 2) =>
        \A i \in 1..Len(imageData.data) :
            maskOut[i] <=> \A v \in Luminances : LumRounded(imageData.data[i]) <= v


----------------------------------------------------------------------------
(* Claims about the editor page's history and auto-save (SpecEdit)         *)

\* The history holds at most MAX_HISTORY snapshots, and its index points
\* into it when it holds any.
HistoryWithinBounds ==
    /\ Len(historyRef) <= MAX_HISTORY
    /\ historyRef # <<>> =>
         /\ 0 <= historyIndexRef
         /\ historyIndexRef < Len(historyRef)

\* A step that gives the history a new content has pushed one snapshot: the
\* snapshots after the index are gone, the new one is last and the index is
\* on it, and the oldest is gone if the push would have gone beyond
\* MAX_HISTORY.
PushedOne ==
    LET kept == SubSeq(historyRef, 1, historyIndexRef + 1)
        json == historyRef'[Len(historyRef')]
    IN  /\ historyIndexRef' = Len(historyRef') - 1
        /\ historyRef' = IF Len(kept) = MAX_HISTORY
                         THEN Tail(kept) \o <<json>>
                         ELSE kept \o <<json>>

\* C18: the undo history never holds more than 100 snapshots; a push that
\* would exceed 100 drops the oldest; a push after an undo discards the redo
\* tail; and 0 <= historyIndex < length of the history whenever the history
\* is non-empty.
C18_HistoryCapped ==
    /\ HistoryWithinBounds
    /\ [][/\ HistoryWithinBounds'
          /\ (historyRef' # historyRef /\ historyRef' # <<>>) => PushedOne]_vars

\* C18 witness: the history is full, a push has dropped its oldest snapshot
\* (the loaded project's) and the index is on the snapshot pushed.
C18_Witness ==
    /\ Len(historyRef) = MAX_HISTORY
    /\ historyRef[1] # Stringify([strokes |-> DemoStrokes])
    /\ historyIndexRef = MAX_HISTORY - 1
    /\ edits > 0

\* The auto-save timers among ts
SaveTimers(ts) == {t \in ts : t.kind = "save"}

\* C19: auto-save is debounced by 2 s.  A save is issued only after 2 s
\* without a change of bezierData or smoothStates and carries the latest
\* values; a change cancels the pending save and arms one new timer of 2 s,
\* so that no two saves are ever pending; the initial load arms none.
C19_AutoSaveDebounced ==
    [][LET changed == bezierData' # bezierData \/ smoothStates' # smoothStates
           pending == SaveTimers(timers')
       IN  /\ saveCount' # saveCount =>
                /\ sinceChange = AutoSaveDelay
                /\ saveCount' = saveCount + 1
                /\ lastSaved' = Some([bezier |-> bezierData, smooth |-> smoothStates])
                /\ pending = {}
           /\ Cardinality(pending) <= 1
           /\ (changed /\ bezierData' # Null /\ ~initialLoadRef) =>
                /\ pending # {}
                /\ \A t \in pending :
                     /\ t.left = AutoSaveDelay
                     /\ t.data = bezierData'
                     /\ t.smooth = smoothStates'
           /\ (changed /\ (initialLoadRef \/ bezierData' = Null)) => pending = {}
      ]_vars

\* C19 witness: after two changes or more, the second within 2 s of the
\* first, one save was made, it has the values shown and none is pending.
C19_Witness ==
    /\ edits >= 2
    /\ saveCount = 1
    /\ bezierData # Null
    /\ lastSaved = Some([bezier |-> bezierData, smooth |-> smoothStates])
    /\ timers = {}

----------------------------------------------------------------------------
(* Claims about the walk of the tracer (SpecMs)                            *)

\* The loop over the segments has ended.
WalkDone == msPc \in {"single", "multi"} \/ (msPc = "for" /\ segIdx > Len(segments))

\* The steps of the paths ps: <<j, i>> is the step of path j from its point
\* i to its point i + 1.
PathSteps(ps) == UNION {{<<j, i>> : i \in 1..(Len(ps[j]) - 1)} : j \in 1..Len(ps)}

\* The steps of the paths ps that run over the segment s, in either
\* direction.
Traversals(ps, s) ==
    {st \in PathSteps(ps) :
        edgeId(ptKey(ps[st[1]][st[2]]), ptKey(ps[st[1]][st[2] + 1])) = edgeId(s.k1, s.k2)}

\* C21: across the paths built from one mask, before sorting and filtering,
\* every segment is traversed by exactly one path and exactly once,
\* the segment that closes a loop included.
C21_EverySegmentInOnePath ==
    WalkDone => \A n \in 1..Len(segments) : Cardinality(Traversals(paths, segments[n])) = 1

----------------------------------------------------------------------------
(* Claims about the segments of the tracer (SpecMs)                        *)

\* The cell loops have just run.
Scanned == msPc = "for" /\ segIdx = 1

\* The cells of the mask, by their top left pixel.
Cells == {<<x, y>> : x \in 0..(width - 2), y \in 0..(height - 2)}

\* code = tl*8 + tr*4 + br*2 + bl of the cell c
CodeOf(c) ==
    Bit(isOn(mask, width, c[1], c[2])) * 8 + Bit(isOn(mask, width, c[1] + 1, c[2])) * 4
    + Bit(isOn(mask, width, c[1] + 1, c[2] + 1)) * 2 + Bit(isOn(mask, width, c[1], c[2] + 1))

\* The midpoints of the four edges of the cell c.
TopOf(c) == <<2 * c[1] + 1, 2 * c[2]>>
RightOf(c) == <<2 * c[1] + 2, 2 * c[2] + 1>>
BottomOf(c) == <<2 * c[1] + 1, 2 * c[2] + 2>>
LeftOf(c) == <<2 * c[1], 2 * c[2] + 1>>
MidpointsOf(c) == {TopOf(c), RightOf(c), BottomOf(c), LeftOf(c)}

\* The midpoints of the edges of the cell c whose two pixels disagree.
Disagreeing(c) ==
    {p \in MidpointsOf(c) :
        \/ p = TopOf(c) /\ isOn(mask, width, c[1], c[2]) # isOn(mask, width, c[1] + 1, c[2])
        \/ p = RightOf(c) /\ isOn(mask, width, c[1] + 1, c[2]) # isOn(mask, width, c[1] + 1, c[2] + 1)
        \/ p = BottomOf(c) /\ isOn(mask, width, c[1] + 1, c[2] + 1) # isOn(mask, width, c[1], c[2] + 1)
        \/ p = LeftOf(c) /\ isOn(mask, width, c[1], c[2] + 1) # isOn(mask, width, c[1], c[2])}

\* The segments the cell c is to give, each as the set of its two ends.
ExpectedSegments(c) ==
    IF CodeOf(c) \in {0, 15} THEN {}
    ELSE IF Cardinality(Disagreeing(c)) = 2 THEN {Disagreeing(c)}
    ELSE IF CodeOf(c) = 5 THEN {{TopOf(c), RightOf(c)}, {BottomOf(c), LeftOf(c)}}
    ELSE {{TopOf(c), LeftOf(c)}, {BottomOf(c), RightOf(c)}}

\* The indices of the segments that lie in the cell c.
SegmentsIn(c) ==
    {n \in 1..Len(segments) : segments[n].p1 \in MidpointsOf(c) /\ segments[n].p2 \in MidpointsOf(c)}

\* C22: codes 0 and 15 give no segment; a code with exactly 2 disagreeing
\* edges gives exactly one segment joining those two midpoints; code 5 gives
\* the two segments top-right and bottom-left, code 10 the two segments
\* top-left and bottom-right; no other code has 4 crossings.
C22_CellSegmentsByCode ==
    Scanned =>
        /\ \A c \in Cells :
             /\ {{segments[n].p1, segments[n].p2} : n \in SegmentsIn(c)} = ExpectedSegments(c)
             /\ Cardinality(SegmentsIn(c)) = Cardinality(ExpectedSegments(c))
             /\ Cardinality(Disagreeing(c)) = 4 <=> CodeOf(c) \in {5, 10}
             /\ Cardinality(Disagreeing(c)) \in {0, 2, 4}
        /\ \A n \in 1..Len(segments) :
             /\ \E c \in Cells : n \in SegmentsIn(c)
             /\ segments[n].k1 = ptKey(segments[n].p1)
             /\ segments[n].k2 = ptKey(segments[n].p2)

\* C22 witness: the cells of a mask with a cell of code 5 and a cell of
\* code 10 have given their segments.
C22_Witness ==
    /\ Scanned
    /\ \E c \in Cells : CodeOf(c) = 5 /\ Cardinality(SegmentsIn(c)) = 2
    /\ \E c \in Cells : CodeOf(c) = 10 /\ Cardinality(SegmentsIn(c)) = 2
    /\ \E c \in Cells : CodeOf(c) = 15

\* The point p lies on the outer border of the cell grid: x = 0, y = 0,
\* x = width - 1 or y = height - 1.
OnBorder(p) ==
    \/ p[1] = 0 \/ p[2] = 0
    \/ p[1] = 2 * (width - 1) \/ p[2] = 2 * (height - 1)

\* C27: in the adjacency graph built from a mask every vertex has degree 1
\* or 2, and the vertices of degree 1 lie on the outer border of the cell
\* grid; no vertex has more than 2 neighbours for the walk to choose from.
C27_DegreeOneOrTwo ==
    Scanned =>
        \A k \in Keys(segments) :
            /\ Len(Adj(segments, k)) \in {1, 2}
            /\ Len(Adj(segments, k)) = 1 => OnBorder(ptLookup(segments, k))

\* C27 witness: the graph of a mask with a saddle cell is built; it has a
\* vertex of degree 1 and a vertex of degree 2 off the border.
C27_Witness ==
    /\ Scanned
    /\ \E c \in Cells : CodeOf(c) \in {5, 10}
    /\ \E k \in Keys(segments) : Len(Adj(segments, k)) = 1
    /\ \E k \in Keys(segments) :
         Len(Adj(segments, k)) = 2 /\ ~OnBorder(ptLookup(segments, k))

\* The path p is closed: its first point is its last point.
IsClosed(p) == Len(p) >= 2 /\ p[1] = p[Len(p)]

\* C26: every path the walk leaves closed runs round a cycle of the segment
\* graph: it has at least 3 distinct vertices and never runs over a segment
\* and then straight back over it; a walk that starts on a segment ending at
\* a dead end leaves an open path.
C26_ClosedPathsAreCycles ==
    WalkDone =>
        \A j \in 1..Len(paths) :
            IsClosed(paths[j]) =>
                /\ Cardinality({paths[j][i] : i \in 1..Len(paths[j])}) >= 3
                /\ \A i \in 1..(Len(paths[j]) - 2) : paths[j][i] # paths[j][i + 2]

\* What the two tracers return for the paths ps agrees: the single contour
\* is the first of the contours, and is empty when there is none.
Agree(single, multi) ==
    /\ multi = <<>> <=> single = <<>>
    /\ multi # <<>> => single = multi[1]

----------------------------------------------------------------------------
(* Claims about rdp (SpecRdp), continued                                   *)

\* part is a subsequence of whole, the order kept: each point of part is
\* matched with the first point of whole, past the earlier matches, that
\* equals it.
RECURSIVE IsSubsequence(_, _)
IsSubsequence(part, whole) ==
    IF part = <<>> THEN TRUE
    ELSE IF whole = <<>> THEN FALSE
    ELSE IF part[1] = whole[1] THEN IsSubsequence(Tail(part), Tail(whole))
    ELSE IsSubsequence(part, Tail(whole))

\* The farthest interior point of the polyline, as rdp's loop finds it.
Farthest == RdpFarthest(points, 2, [num |-> 0, den |-> 1], 1)

\* C28: for a non-empty polyline and epsilon >= 0, rdp terminates (where it
\* splits, the split is at an interior point, so that both parts are
\* shorter), and what it returns is a subsequence of its input, the order
\* kept, that starts with the input's first point and ends with its last; it
\* has 2 points at least when the input has.
C28_RdpKeepsEndsAndOrder ==
    /\ (rdpPc = "call" /\ Len(points) >= 3 /\ ExceedsEps(Farthest.maxDist, epsHalves)) =>
         /\ Farthest.index >= 2
         /\ Farthest.index <= Len(points) - 1
    /\ (rdpPc \in {"once", "twice"} /\ points # <<>>) =>
         /\ simplified # <<>>
         /\ simplified[1] = points[1]
         /\ simplified[Len(simplified)] = points[Len(points)]
         /\ IsSubsequence(simplified, points)
         /\ Len(points) >= 2 => Len(simplified) >= 2

\* C28 witness: rdp has simplified a closed polyline of MaxPolyLen points,
\* dropping some of its points and keeping one between its ends.
C28_Witness ==
    /\ rdpPc = "once"
    /\ Len(points) = MaxPolyLen
    /\ points[1] = points[Len(points)]
    /\ Len(simplified) > 2
    /\ Len(simplified) < Len(points)

----------------------------------------------------------------------------
(* Claims about fitCubic (SpecCubic)                                       *)

\* part is a run of consecutive points of whole.
IsRun(part, whole) ==
    \E a \in 1..(Len(whole) - Len(part) + 1) :
        SubSeq(whole, a, a + Len(part) - 1) = part

\* C23: fitCubic returns on every polyline of two points or more: the split
\* is clamped to an interior index, so every segment was fitted to a run of
\* two or more consecutive points that is shorter by one point at least for
\* each level of the recursion; no call is made at a depth above 51, and a
\* call at a depth above 50 returns one segment without subdividing.
C23_FitCubicTerminates ==
    /\ \A n \in 3..MaxFitLen : \A split \in 0..(n - 1) :
         ClampSplit(split, n) \in 1..(n - 2)
    /\ (fitPc = "done" /\ Len(fitPoints) >= 2) =>
         /\ fitted # <<>>
         /\ \A i \in 1..Len(fitted) :
              /\ Len(fitted[i].src) >= 2
              /\ IsRun(fitted[i].src, fitPoints)
              /\ fitted[i].depth >= fitDepth
              /\ fitted[i].depth <= DepthCap + 1
              /\ Len(fitted[i].src) + (fitted[i].depth - fitDepth) <= Len(fitPoints)
         /\ fitDepth > DepthCap =>
              /\ Len(fitted) = 1
              /\ fitted[1].how = "base"
              /\ fitted[1].src = fitPoints

\* C23 witness: a call at depth 50 has split its polyline, and one of the
\* two calls it made at depth 51 has returned a single segment for three
\* points or more.
C23_Witness ==
    /\ fitPc = "done"
    /\ fitDepth = DepthCap
    /\ Len(fitted) >= 2
    /\ \E i \in 1..Len(fitted) :
         /\ fitted[i].depth = DepthCap + 1
         /\ fitted[i].how = "base"
         /\ Len(fitted[i].src) >= 3

----------------------------------------------------------------------------
(* Claims about fitCurve, continued                                        *)

\* The segments of segs from the i-th on have their anchors at points of
\* pts of increasing index: the i-th starts at pts[from], each one ends at
\* a later interior point where the next one starts, and the last one ends
\* at the last point.
RECURSIVE AnchoredFrom(_, _, _, _)
AnchoredFrom(segs, i, pts, from) ==
    /\ segs[i].ctrl[1] = pts[from]
    /\ IF i = Len(segs)
       THEN from < Len(pts) /\ segs[i].ctrl[4] = pts[Len(pts)]
       ELSE \E to \in (from + 1)..(Len(pts) - 1) :
                /\ segs[i].ctrl[4] = pts[to]
                /\ AnchoredFrom(segs, i + 1, pts, to)

\* C29: on n >= 2 points fitCurve returns between 1 and n - 1 segments whose
\* anchors are input points in increasing index order: the first segment
\* starts at the first point, the last one ends at the last point, and each
\* joint is an interior input point.
C29_AnchorsAreInputPoints ==
    (fitPc = "done" /\ Len(fitPoints) >= 2) =>
        /\ Len(fitted) >= 1
        /\ Len(fitted) <= Len(fitPoints) - 1
        /\ AnchoredFrom(fitted, 1, fitPoints, 1)

\* C29 witness: fitCurve has split a polyline of five points into two or
\* three segments, so that some interior point is a joint and some is not.
C29_Witness ==
    /\ fitPc = "done"
    /\ Len(fitPoints) = MaxFitLen
    /\ Len(fitted) \in 2..(Len(fitPoints) - 2)

\* The tangents fitCurve gives fitCubic, and the state of that call of
\* fitCubic after its first generateBezier and computeMaxError.
FitLeftTan(pts) == normalize(sub(At(pts, 1), At(pts, 0)))
FitRightTan(pts) == normalize(sub(At(pts, Len(pts) - 2), LastOf(pts)))
FirstFit(pts, error) ==
    FitState(pts, FitLeftTan(pts), FitRightTan(pts), error, chordLengthParameterize(pts))

\* The states of k rounds of reparameterize, generateBezier and
\* computeMaxError after st, none of them cut short.
RoundAfter(pts, error, st) ==
    FitState(pts, FitLeftTan(pts), FitRightTan(pts), error,
             reparameterize(pts, st.u, st.bezier))

RECURSIVE RoundsFrom(_, _, _, _)
RoundsWith(pts, error, next, k) == <<next>> \o RoundsFrom(pts, error, next, k - 1)
RoundsFrom(pts, error, st, k) ==
    IF k = 0 THEN <<>> ELSE RoundsWith(pts, error, RoundAfter(pts, error, st), k)

\* The first round of rounds whose error is below the tolerance, 0 if none.
FirstAccepted(rounds) ==
    IF \E j \in 1..Len(rounds) : rounds[j].accepted
    THEN CHOOSE j \in 1..Len(rounds) :
             /\ rounds[j].accepted
             /\ \A k \in 1..(j - 1) : ~rounds[k].accepted
    ELSE 0

\* The index (from 0) in the polyline of the point the k-th of segs ends at.
RECURSIVE EndIndex(_, _)
EndIndex(segs, k) ==
    IF k = 0 THEN 0 ELSE EndIndex(segs, k - 1) + Len(segs[k].src) - 1

\* fitCubic has split at split: segs are two or more, and one of them ends
\* at the point of that index.
SplitsAt(segs, split) ==
    /\ Len(segs) >= 2
    /\ \E k \in 1..(Len(segs) - 1) : EndIndex(segs, k) = split

\* errorTolerance <= e < errorTolerance^2
ReparamWindow(e, error) == e >= error /\ e < MulS(error, error)

\* What fitCubic returns after the rounds: the curve of the first round
\* whose error is below the tolerance, or the split of the last round.
AfterRounds(segs, pts, rounds, j) ==
    IF j > 0
    THEN /\ Len(segs) = 1
         /\ segs[1].how = "reparam"
         /\ segs[1].ctrl = rounds[j].bezier
         /\ segs[1].u = rounds[j].u
    ELSE SplitsAt(segs, ClampSplit(rounds[Len(rounds)].split, Len(pts)))

AfterRoundsOf(segs, pts, rounds) == AfterRounds(segs, pts, rounds, FirstAccepted(rounds))

\* What fitCubic returns on three points or more, st0 being its first fit.
FitsAs(segs, pts, error, st0) ==
    IF st0.maxError < error
    THEN Len(segs) = 1 /\ segs[1].how = "first" /\ segs[1].ctrl = st0.bezier
    ELSE IF ReparamWindow(st0.maxError, error)
         THEN AfterRoundsOf(segs, pts, RoundsFrom(pts, error, st0, ReparamRounds))
         ELSE SplitsAt(segs, ClampSplit(st0.split, Len(pts)))

\* C24: fitCubic reparameterizes exactly when the first fit's error e has
\* errorTolerance <= e < errorTolerance^2, so never with a tolerance of 1 or
\* less; it runs five rounds at most, returns the single curve of the first
\* round whose error is below the tolerance, and otherwise splits at the
\* worst-error index of the last round.
C24_ReparamInWindow ==
    /\ \A halves \in FitErrHalvesSamples :
         FitError(halves) <= Scale =>
             \A e \in {0, FitError(halves) - 1, FitError(halves), Scale, Cap} :
                 ~ReparamWindow(e, FitError(halves))
    /\ (fitPc = "done" /\ Len(fitPoints) >= 3) =>
         /\ FitsAs(fitted, fitPoints, FitError(fitErrHalves),
                   FirstFit(fitPoints, FitError(fitErrHalves)))
         /\ FitError(fitErrHalves) <= Scale =>
                \A i \in 1..Len(fitted) : fitted[i].how # "reparam"

\* The rounds of the call fitCurve has made, when its first fit is in the
\* window.
FitRounds ==
    RoundsFrom(fitPoints, FitError(fitErrHalves),
               FirstFit(fitPoints, FitError(fitErrHalves)), ReparamRounds)

InWindow ==
    /\ fitPc = "done" /\ Len(fitPoints) >= 3
    /\ ReparamWindow(FirstFit(fitPoints, FitError(fitErrHalves)).maxError,
                     FitError(fitErrHalves))

\* C24 witness: the first fit was in the window and no round of the five
\* brought the error below the tolerance, so that fitCubic has split, at an
\* index of the last round that is not the one of the first fit.
C24_Witness ==
    /\ InWindow
    /\ FirstAccepted(FitRounds) = 0
    /\ Len(fitted) >= 2
    /\ ClampSplit(FitRounds[ReparamRounds].split, Len(fitPoints))
           # ClampSplit(FirstFit(fitPoints, FitError(fitErrHalves)).split, Len(fitPoints))

----------------------------------------------------------------------------
(* Claims about the undo history, continued (SpecEdit)                     *)

\* A push to the history is pending.
PushPending == \E t \in timers : t.kind = "push"

\* C30: the undo history is consistent with the displayed curves: while
\* curves are displayed and no push to the history is pending, the snapshot
\* at historyIndex is the displayed curve data, also after an undo or redo
\* made while the push of an earlier edit was pending; so that undo followed
\* by redo, which displays that snapshot again, restores the same data.
C30_HistoryMatchesDisplay ==
    (bezierData # Null /\ historyRef # <<>> /\ ~PushPending) =>
        /\ historyIndexRef >= 0
        /\ historyIndexRef < Len(historyRef)
        /\ historyRef[historyIndexRef + 1] = Stringify(bezierData[1])

====
